---- MODULE Spec2Model ----
(***************************************************************************)
(* The client-side synchronisation and transaction layer of the NFT        *)
(* marketplace pages: AuctionView (src/unnamed/part_000), MarketView and   *)
(* MyNFTs (src/src/pages/MarketView.tsx) and NFTFusion                     *)
(* (src/src/pages/NFTFusion.tsx).                                          *)
(*                                                                         *)
(* One page is mounted at a time; `page` says which.  The React state of   *)
(* the mounted component is the set of variables below, named as in the    *)
(* source.  Every await of a handler is a suspension point: the handler is *)
(* cut into one action per resumption, and the promise it waits on is a    *)
(* record in `reads` (ledger reads) or `ops` (write operations).           *)
(***************************************************************************)
EXTENDS Integers, Sequences, FiniteSets, Bags, TLC

\* ------------------------------------------------------------ bounds
MaxReads == 2       \* ledger reads of one page in flight at once
MaxOps == 2         \* write operations in flight at once
MaxAmount == 1      \* largest amount, in APT, typed or held on the ledger
MaxTime == 2        \* the clock runs from 0 to MaxTime seconds
MaxRarity == 2      \* rarity tiers in use, of the four the contract knows
MaxNfts == 10       \* NFTs of the largest marketplace the filters are run on
MaxCents == 8       \* hundredths of an APT of the dearest NFT the purchases are run on

\* -------------------------------------------------- program constants
OCTAS == 100000000  \* minor units per APT
MsPerSec == 1000    \* Date.now() is in ms, end_time in seconds
pageSize == 8

VARIABLES
    page,               \* the mounted component; "none" once it is torn down
    mounted,            \* its mount effect has run
    account,            \* useWallet().account: "none" or an address
    limits,             \* how many reads and how many operations may be in flight
    now,                \* Date.now(), in ms
    notice,             \* the antd message the last step showed, if any
    chainAuctions,      \* ledger: what get_all_auctions returns
    reads,              \* bag of ledger reads in flight
    ops,                \* bag of write operations in flight
    last,               \* how the refresh or write operation that the last step
                        \* ended, if any, did end:
                        \*   a refresh: "replaced" (a new snapshot is stored),
                        \*     "partial" (stored, some per-id reads having failed),
                        \*     "ignored" (the answer was not usable), "failed" (the
                        \*     read threw: catch), "undecoded" (the decoding of the
                        \*     answer threw: catch)
                        \*   a write operation: "UserRejected" (the wallet threw),
                        \*     "ChainRejected" (the finality wait threw), "Confirmed"
                        \*     (the handler's success path ran to its end), "Aborted"
                        \*     (a step after the finality wait threw)
    isLoading,
    timerOn,            \* AuctionView: the setInterval handle is live
    auctions,           \* AuctionView: the snapshot
    selectedAuction,    \* AuctionView: << >> (null) or <<auction>>
    bidAmount,          \* AuctionView: << >> ("") or <<n>>
    isBidModalVisible,
    chainNfts,          \* ledger: the Marketplace resource's nfts
    nfts,               \* MarketView, MyNFTs: the snapshot
    selectedNft,        \* MarketView, MyNFTs: << >> (null) or <<nft>>
    currentPage,        \* MarketView, MyNFTs
    filteredNfts,       \* MarketView
    rarity,             \* MarketView: 0 ('all') or a rarity tier
    sortBy,             \* MarketView
    priceRange,         \* MarketView: <<lowest, highest>>, two numbers of APT
    dateRange,          \* MarketView: two dates in ms, each << >> (null) or <<t>>
    searchTerm,         \* MarketView: a text
    isBuyModalVisible,  \* MarketView
    totalNFTs,          \* MyNFTs
    salePrice,          \* MyNFTs: << >> ("") or <<n>>
    isModalVisible,     \* MyNFTs: the Sell modal
    isAuctionModalVisible,  \* MyNFTs
    auctionStartingPrice,   \* MyNFTs: << >> ("") or <<n>>
    auctionEndTime,     \* MyNFTs: << >> (null) or <<t>>
    userNFTs,           \* NFTFusion: the snapshot
    selectedNFTs,       \* NFTFusion: the cards selected, in click order
    isFusing,           \* NFTFusion
    fusionResult        \* NFTFusion: << >> (null) or <<nft>>

setupVars == <<page, account, limits>>
auctionVars == <<timerOn, auctions, selectedAuction, bidAmount, isBidModalVisible>>
listVars == <<nfts, selectedNft, currentPage>>
filterVars == <<priceRange, dateRange, searchTerm>>
marketVars == <<filteredNfts, rarity, sortBy, isBuyModalVisible, filterVars>>
myVars == <<totalNFTs, salePrice, isModalVisible, isAuctionModalVisible,
            auctionStartingPrice, auctionEndTime>>
fusionVars == <<userNFTs, selectedNFTs, isFusing, fusionResult>>

vars == <<setupVars, mounted, now, notice, chainAuctions, chainNfts, reads, ops, last,
          isLoading, auctionVars, listVars, marketVars, myVars, fusionVars>>

\* What the actions of one page leave alone.
notAuction == <<chainNfts, listVars, marketVars, myVars, fusionVars>>
notMarket == <<chainAuctions, auctionVars, myVars, fusionVars>>
notMy == <<chainAuctions, auctionVars, marketVars, fusionVars>>
notFusion == <<chainAuctions, auctionVars, listVars, marketVars, myVars>>

\* ------------------------------------------------------------ helpers
Pages == {"auction", "market", "my", "fusion"}
SortModes == {"price_asc", "price_desc", "date_asc", "date_desc", "rarity_asc",
              "rarity_desc"}
Accounts == {"none", "alice"}
Amounts == 0..MaxAmount
\* How many reads and how many write operations a run lets be in flight at
\* once.  On AuctionView and MarketView a run has refreshes overlap, or write
\* operations, up to the bound; on MyNFTs neither; NFTFusion needs no cap.
Limits(p) ==
    IF p \in {"auction", "market"}
    THEN {[reads |-> MaxReads, ops |-> 1], [reads |-> 1, ops |-> MaxOps]}
    ELSE {[reads |-> 1, ops |-> 1]}
\* What a number input can hold: "" or a number, which may be negative.
Typed == {<< >>, <<-1>>, <<MaxAmount>>}

NoNotice == [kind |-> "none", text |-> ""]
Message(k, t) == [kind |-> k, text |-> t]

One(x) == SetToBag({x})
InFlight(b) == BagToSet(b)

\* A read of the ledger function fn that the node answers from the value val.
Read(fn, val) == [fn |-> fn, val |-> val]

\* A write operation waiting for the wallet: the intent's function and its
\* arguments, the id and the amount in octas.
Intent(kind, id, amount) == [kind |-> kind, id |-> id, amount |-> amount, stage |-> "wallet"]

\* What a state update of the component p leaves in a variable: React drops
\* the update when the component is no longer mounted.
Kept(p, new, old) == IF page = p THEN new ELSE old

\* No message is shown by a step that shows none, and `last` is "none" after
\* a step that ends neither a refresh nor a write operation.
Quiet == notice' = NoNotice /\ last' = "none"

\* ------------------------------------------------------------ text
\* A text is a sequence of characters; the ledger holds it as bytes.  The
\* letters in use, with their codes:
Letters == {"A", "a", "B", "b"}
CodeOf(c) == CASE c = "A" -> 65 [] c = "a" -> 97 [] c = "B" -> 66 [] c = "b" -> 98
Bytes(text) == [i \in 1..Len(text) |-> CodeOf(text[i])]

\* new TextDecoder().decode(bytes)
TextDecode(bytes) ==
    [i \in 1..Len(bytes) |-> CHOOSE c \in Letters : CodeOf(c) = bytes[i]]

\* String.prototype.toLowerCase
toLowerCase(text) ==
    [i \in 1..Len(text) |->
        CASE text[i] = "A" -> "a" [] text[i] = "B" -> "b" [] OTHER -> text[i]]

\* String.prototype.includes
includes(text, term) ==
    \E i \in 0..(Len(text) - Len(term)) : SubSeq(text, i + 1, i + Len(term)) = term

\* ------------------------------------------------------- environment
\* Time passes.  Only AuctionView compares the clock with anything, so only
\* there is it advanced.
Tick ==
    /\ page = "auction" /\ mounted
    /\ now < MaxTime * MsPerSec
    /\ now' = now + MsPerSec
    /\ Quiet
    /\ UNCHANGED <<setupVars, mounted, chainAuctions, reads, ops, 
                   isLoading, auctionVars, notAuction>>

\* Another bidder raises the current bid on the ledger.
ChainOutbid ==
    /\ page = "auction" /\ mounted
    /\ \E b \in Amounts :
          /\ b * OCTAS > chainAuctions[1].current_bid
          /\ chainAuctions' = [chainAuctions EXCEPT ![1].current_bid = b * OCTAS]
    /\ Quiet
    /\ UNCHANGED <<setupVars, mounted, now, reads, ops, isLoading,
                   auctionVars, notAuction>>

\* ---------------------------------------------------------- numbers
\* A natural number of any size: its digits in base 10000, lowest first,
\* without leading zero digits.
RECURSIVE BigOf(_)
BigOf(n) == IF n = 0 THEN << >> ELSE <<n % 10000>> \o BigOf(n \div 10000)

RECURSIVE BigTrim(_)
BigTrim(a) ==
    IF a # << >> /\ a[Len(a)] = 0 THEN BigTrim(SubSeq(a, 1, Len(a) - 1)) ELSE a

Digit(a, i) == IF i <= Len(a) THEN a[i] ELSE 0

RECURSIVE BigAddFrom(_, _, _, _)
BigAddFrom(a, b, i, carry) ==
    IF i > Len(a) /\ i > Len(b)
    THEN IF carry = 0 THEN << >> ELSE <<carry>>
    ELSE LET d == Digit(a, i) + Digit(b, i) + carry
         IN  <<d % 10000>> \o BigAddFrom(a, b, i + 1, d \div 10000)

BigAdd(a, b) == BigAddFrom(a, b, 1, 0)

RECURSIVE BigSubFrom(_, _, _, _)
BigSubFrom(a, b, i, borrow) ==
    IF i > Len(a)
    THEN << >>
    ELSE LET d == Digit(a, i) - Digit(b, i) - borrow
         IN  <<(d + 10000) % 10000>> \o BigSubFrom(a, b, i + 1, IF d < 0 THEN 1 ELSE 0)

\* a - b, for a >= b
BigSub(a, b) == BigTrim(BigSubFrom(a, b, 1, 0))

RECURSIVE BigCmpFrom(_, _, _)
BigCmpFrom(a, b, i) ==
    IF i = 0 THEN 0
    ELSE IF a[i] # b[i] THEN (IF a[i] < b[i] THEN -1 ELSE 1)
    ELSE BigCmpFrom(a, b, i - 1)

\* -1, 0 or 1 as a is less than, equal to or greater than b
BigCmp(a, b) ==
    IF Len(a) # Len(b) THEN (IF Len(a) < Len(b) THEN -1 ELSE 1)
    ELSE BigCmpFrom(a, b, Len(a))

BigHalf(a) ==
    BigTrim([i \in 1..Len(a) |-> (a[i] + 10000 * (Digit(a, i + 1) % 2)) \div 2])

\* a * 2^k
RECURSIVE BigTimes2(_, _)
BigTimes2(a, k) == IF k = 0 \/ a = << >> THEN a ELSE BigTimes2(BigAdd(a, a), k - 1)

\* a * d * 10000^(i-1) for one digit d, summed over the digits of b
RECURSIVE BigMulFrom(_, _, _)
BigMulFrom(a, b, i) ==
    IF i > Len(b) THEN << >>
    ELSE LET RECURSIVE Row(_, _)
             Row(j, carry) ==
                 IF j > Len(a)
                 THEN IF carry = 0 THEN << >> ELSE <<carry>>
                 ELSE LET d == a[j] * b[i] + carry
                      IN  <<d % 10000>> \o Row(j + 1, d \div 10000)
         IN  BigAdd([k \in 1..(i - 1) |-> 0] \o Row(1, 0), BigMulFrom(a, b, i + 1))

BigMul(a, b) == BigTrim(BigMulFrom(a, b, 1))

\* A JavaScript number that is not negative: the IEEE 754 double m * 2^e,
\* written in one way only: with e zero when it is a whole number, and with
\* m odd and e negative when it is not.
RECURSIVE Double(_, _)
Double(m, e) ==
    IF m = << >> THEN [m |-> << >>, e |-> 0]
    ELSE IF e < 0 /\ m[1] % 2 = 0 THEN Double(BigHalf(m), e + 1)
    ELSE IF e > 0 THEN [m |-> BigTimes2(m, e), e |-> 0]
    ELSE [m |-> m, e |-> e]

Number(n) == Double(BigOf(n), 0)

\* p / q brought to q <= p < 2q by powers of two: what is brought in is 2^e
\* times what is given out
RECURSIVE Scale(_, _, _)
Scale(p, q, e) ==
    IF e > -1074 /\ BigCmp(p, q) < 0 THEN Scale(BigAdd(p, p), q, e - 1)
    ELSE IF e < 1023 /\ BigCmp(p, BigAdd(q, q)) >= 0 THEN Scale(p, BigAdd(q, q), e + 1)
    ELSE [p |-> p, q |-> q, e |-> e]

\* Long division in binary, at most k more digits: d.m holds the digits found
\* so far and d.r, less than 2q, twice what is left to divide.  It ends with
\* d.k digits still to come, all zero, when nothing is left.
RECURSIVE Quotient(_, _, _)
Quotient(d, q, k) ==
    IF k = 0 \/ d.r = << >> THEN [m |-> d.m, r |-> d.r, k |-> k]
    ELSE LET bit == BigCmp(d.r, q) >= 0
             left == IF bit THEN BigSub(d.r, q) ELSE d.r
         IN  Quotient([m |-> BigAdd(BigAdd(d.m, d.m), IF bit THEN <<1>> ELSE << >>),
                       r |-> BigAdd(left, left)], q, k - 1)

\* The double nearest to P / Q * 2^e, ties to even: 53 binary digits.
Nearest(P, Q, e) ==
    IF P = << >> THEN Double(<< >>, 0)
    ELSE LET s == Scale(P, Q, 0)
             d == Quotient([m |-> << >>, r |-> s.p], s.q, 53)
             half == BigCmp(d.r, s.q)
             up == half > 0 \/ (half = 0 /\ d.m[1] % 2 = 1)
         IN  Double(IF up THEN BigAdd(d.m, <<1>>) ELSE d.m, s.e - 52 + d.k + e)

\* x * y and x / y in double arithmetic
Times(x, y) == Nearest(BigMul(x.m, y.m), <<1>>, x.e + y.e)
Over(x, y) == Nearest(x.m, y.m, x.e - y.e)

\* -1, 0 or 1 as x is less than, equal to or greater than y
Cmp(x, y) ==
    IF x.e >= y.e THEN BigCmp(BigTimes2(x.m, x.e - y.e), y.m)
    ELSE BigCmp(x.m, BigTimes2(y.m, y.e - x.e))

\* ================================================================ AuctionView
\* fetchedAuctions: response[0].map(...)
DecodeAuction(a) ==
    [id |-> a.id, seller |-> a.seller, currentBid |-> a.current_bid \div OCTAS,
     endTime |-> a.end_time,
     nftDetails |-> [name |-> TextDecode(a.nft_details[1].name)]]

DecodeAuctions(raw) == [i \in 1..Len(raw) |-> DecodeAuction(raw[i])]

\* The map over the answer runs through: no auction lacks its nft_details,
\* which auction.nft_details.name would throw on.
AuctionsDecodable(raw) == \A i \in 1..Len(raw) : raw[i].nft_details # << >>

isAuctionEnded(endTime) == now > endTime * MsPerSec

\* fetchAuctions up to its await: setIsLoading(true); client.view(...)
StartFetchAuctions ==
    /\ BagCardinality(reads) < limits.reads
    /\ isLoading' = Kept("auction", TRUE, isLoading)
    /\ reads' = reads (+) One(Read("get_all_auctions", chainAuctions))

\* The mount effect: fetchAuctions(); setInterval(fetchAuctions, 30000)
AuctionMount ==
    /\ page = "auction" /\ ~mounted
    /\ mounted' = TRUE
    /\ timerOn' = TRUE
    /\ StartFetchAuctions
    /\ Quiet
    /\ UNCHANGED notAuction
    /\ UNCHANGED <<setupVars, now, chainAuctions, ops, 
                   auctions, selectedAuction, bidAmount, isBidModalVisible>>

\* The interval fires: it does as long as it is not cleared.
PollTick ==
    /\ timerOn
    /\ StartFetchAuctions
    /\ Quiet
    /\ UNCHANGED notAuction
    /\ UNCHANGED <<setupVars, mounted, now, chainAuctions, ops, 
                   auctionVars>>

\* The view is torn down: the effect's cleanup runs, clearInterval(interval),
\* and the component's state is gone.  AuctionUnmountKeepsTimer is the
\* teardown as it would be without the cleanup.
AuctionUnmountKeepsTimer ==
    /\ page = "auction" /\ mounted
    /\ page' = "none"
    /\ mounted' = FALSE
    /\ auctions' = << >>
    /\ selectedAuction' = << >>
    /\ bidAmount' = << >>
    /\ isBidModalVisible' = FALSE
    /\ isLoading' = FALSE
    /\ Quiet
    /\ UNCHANGED notAuction
    /\ UNCHANGED <<account, limits, now, chainAuctions, reads, ops, timerOn>>

AuctionUnmount ==
    /\ page = "auction" /\ mounted
    /\ page' = "none"
    /\ mounted' = FALSE
    /\ timerOn' = FALSE
    /\ auctions' = << >>
    /\ selectedAuction' = << >>
    /\ bidAmount' = << >>
    /\ isBidModalVisible' = FALSE
    /\ isLoading' = FALSE
    /\ Quiet
    /\ UNCHANGED notAuction
    /\ UNCHANGED <<account, limits, now, chainAuctions, reads, ops>>

\* The read answers with an array: setAuctions(fetchedAuctions); finally.
\* React drops the state updates of a component that is no longer mounted.
FetchAuctionsOk ==
    /\ \E r \in InFlight(reads) :
          /\ r.fn = "get_all_auctions"
          /\ AuctionsDecodable(r.val)
          /\ reads' = reads (-) One(r)
          /\ auctions' = Kept("auction", DecodeAuctions(r.val), auctions)
    /\ last' = Kept("auction", "replaced", "ignored")
    /\ isLoading' = Kept("auction", FALSE, isLoading)
    /\ notice' = NoNotice
    /\ UNCHANGED notAuction
    /\ UNCHANGED <<setupVars, mounted, now, chainAuctions, ops,
                   timerOn, selectedAuction, bidAmount, isBidModalVisible>>

\* FetchAuctionsNotArray as it would be without the finally block.
FetchAuctionsNotArrayKeepsLoading ==
    /\ \E r \in InFlight(reads) :
          /\ r.fn = "get_all_auctions"
          /\ reads' = reads (-) One(r)
    /\ last' = "ignored"
    /\ notice' = NoNotice
    /\ UNCHANGED notAuction
    /\ UNCHANGED <<setupVars, mounted, now, chainAuctions, ops, isLoading, auctionVars>>

\* The read answers with something that is no array: nothing is set; finally.
FetchAuctionsNotArray ==
    /\ \E r \in InFlight(reads) :
          /\ r.fn = "get_all_auctions"
          /\ reads' = reads (-) One(r)
    /\ last' = "ignored"
    /\ isLoading' = Kept("auction", FALSE, isLoading)
    /\ notice' = NoNotice
    /\ UNCHANGED notAuction
    /\ UNCHANGED <<setupVars, mounted, now, chainAuctions, ops, auctionVars>>

\* The read answers with an array and the map over it throws on a record:
\* catch, finally.  Nothing of the answer is stored.
FetchAuctionsUndecodable ==
    /\ \E r \in InFlight(reads) :
          /\ r.fn = "get_all_auctions"
          /\ ~AuctionsDecodable(r.val)
          /\ reads' = reads (-) One(r)
    /\ last' = "undecoded"
    /\ notice' = Message("error", "Failed to fetch auctions.")
    /\ isLoading' = Kept("auction", FALSE, isLoading)
    /\ UNCHANGED notAuction
    /\ UNCHANGED <<setupVars, mounted, now, chainAuctions, ops, auctionVars>>

\* FetchAuctionsFail as it would be with setAuctions([]) in the catch block.
FetchAuctionsFailClears ==
    /\ \E r \in InFlight(reads) :
          /\ r.fn = "get_all_auctions"
          /\ reads' = reads (-) One(r)
    /\ last' = "failed"
    /\ notice' = Message("error", "Failed to fetch auctions.")
    /\ isLoading' = FALSE
    /\ auctions' = << >>
    /\ UNCHANGED notAuction
    /\ UNCHANGED <<setupVars, mounted, now, chainAuctions, ops, timerOn,
                   selectedAuction, bidAmount, isBidModalVisible>>

\* The read throws: catch, finally.
FetchAuctionsFail ==
    /\ \E r \in InFlight(reads) :
          /\ r.fn = "get_all_auctions"
          /\ reads' = reads (-) One(r)
    /\ last' = "failed"
    /\ notice' = Message("error", "Failed to fetch auctions.")
    /\ isLoading' = Kept("auction", FALSE, isLoading)
    /\ UNCHANGED notAuction
    /\ UNCHANGED <<setupVars, mounted, now, chainAuctions, ops, auctionVars>>

\* A card's Place Bid button can be clicked: the list is rendered (not the
\* spinner), the auction has not ended, and the viewer is not the seller.
BidButtonShown(a) ==
    /\ ~isLoading
    /\ ~isAuctionEnded(a.endTime)
    /\ (account = "none" \/ account # a.seller)

handleBidClick ==
    /\ page = "auction" /\ mounted
    /\ \E i \in 1..Len(auctions) :
          /\ BidButtonShown(auctions[i])
          /\ IF account = "none"
             THEN /\ notice' = Message("warning", "Please connect your wallet to place a bid")
                  /\ UNCHANGED <<selectedAuction, isBidModalVisible>>
             ELSE /\ selectedAuction' = <<auctions[i]>>
                  /\ isBidModalVisible' = TRUE
                  /\ notice' = NoNotice
    /\ last' = "none"
    /\ UNCHANGED notAuction
    /\ UNCHANGED <<setupVars, mounted, now, chainAuctions, reads, ops, 
                   isLoading, timerOn, auctions, bidAmount>>

\* The bid input's onChange: the field holds "" or a number.
setBidAmount ==
    /\ page = "auction" /\ isBidModalVisible /\ selectedAuction # << >>
    /\ \E v \in {<< >>} \cup {<<n>> : n \in Amounts} :
          /\ v # bidAmount
          /\ bidAmount' = v
    /\ Quiet
    /\ UNCHANGED notAuction
    /\ UNCHANGED <<setupVars, mounted, now, chainAuctions, reads, ops, 
                   isLoading, timerOn, auctions, selectedAuction, isBidModalVisible>>

handleBidCancel ==
    /\ page = "auction" /\ isBidModalVisible
    /\ isBidModalVisible' = FALSE
    /\ selectedAuction' = << >>
    /\ bidAmount' = << >>
    /\ Quiet
    /\ UNCHANGED notAuction
    /\ UNCHANGED <<setupVars, mounted, now, chainAuctions, reads, ops, 
                   isLoading, timerOn, auctions>>

\* BidSubmitDisabled as it would be with < in place of <=.
BidSubmitDisabledStrict ==
    \/ bidAmount = << >>
    \/ (selectedAuction # << >> /\ bidAmount[1] < selectedAuction[1].currentBid)

\* The modal's Place Bid button: disabled={!bidAmount || (selectedAuction &&
\* parseFloat(bidAmount) <= selectedAuction.currentBid)}
BidSubmitDisabled ==
    \/ bidAmount = << >>
    \/ (selectedAuction # << >> /\ bidAmount[1] <= selectedAuction[1].currentBid)

\* handleBidSubmit's early return: if (!selectedAuction || !bidAmount || !account)
BidSubmitReturnsEarly == selectedAuction = << >> \/ bidAmount = << >> \/ account = "none"

\* handleBidSubmit up to its first await: the intent goes to the wallet.
handleBidSubmit ==
    /\ page = "auction" /\ isBidModalVisible /\ ~BidSubmitDisabled
    /\ ~BidSubmitReturnsEarly
    /\ BagCardinality(ops) < limits.ops
    /\ ops' = ops (+) One(Intent("place_bid", selectedAuction[1].id, bidAmount[1] * OCTAS))
    /\ Quiet
    /\ UNCHANGED notAuction
    /\ UNCHANGED <<setupVars, mounted, now, chainAuctions, reads, 
                   isLoading, auctionVars>>

\* signAndSubmitTransaction resolves with a handle, and the handler goes on to
\* client.waitForTransaction(response.hash).
WalletResolve(kind) ==
    \E op \in InFlight(ops) :
        /\ op.kind = kind /\ op.stage = "wallet"
        /\ ops' = (ops (-) One(op)) (+) One([op EXCEPT !.stage = "finality"])

\* BidWalletResolve as it would be without the await on waitForTransaction:
\* the success path runs as soon as the wallet has returned the handle.
BidWalletResolveNoWait ==
    /\ \E op \in InFlight(ops) :
          /\ op.kind = "place_bid" /\ op.stage = "wallet"
          /\ ops' = ops (-) One(op)
          /\ last' = "Confirmed"
    /\ notice' = Message("success", "Bid placed successfully!")
    /\ isBidModalVisible' = FALSE
    /\ bidAmount' = << >>
    /\ BagCardinality(reads) < limits.reads
    /\ isLoading' = TRUE
    /\ reads' = reads (+) One(Read("get_all_auctions", chainAuctions))
    /\ UNCHANGED notAuction
    /\ UNCHANGED <<setupVars, mounted, now, chainAuctions, timerOn, auctions,
                   selectedAuction>>

BidWalletResolve ==
    /\ WalletResolve("place_bid")
    /\ Quiet
    /\ UNCHANGED notAuction
    /\ UNCHANGED <<setupVars, mounted, now, chainAuctions, reads, 
                   isLoading, auctionVars>>

\* signAndSubmitTransaction rejects (the user declines, the wallet errors): catch.
BidWalletReject ==
    /\ \E op \in InFlight(ops) :
          /\ op.kind = "place_bid" /\ op.stage = "wallet"
          /\ ops' = ops (-) One(op)
          /\ last' = "UserRejected"
    /\ notice' = Message("error", "Failed to place bid. Please try again.")
    /\ UNCHANGED notAuction
    /\ UNCHANGED <<setupVars, mounted, now, chainAuctions, reads, isLoading, auctionVars>>

\* The ledger takes a bid on this auction that is higher than the current one.
ChainAcceptsBid(op) ==
    /\ op.id = chainAuctions[1].id
    /\ op.amount > chainAuctions[1].current_bid

\* waitForTransaction resolves: success notice, modal closed, fetchAuctions().
BidFinalityOk ==
    /\ \E op \in InFlight(ops) :
          /\ op.kind = "place_bid" /\ op.stage = "finality"
          /\ ChainAcceptsBid(op)
          /\ ops' = ops (-) One(op)
          /\ chainAuctions' = [chainAuctions EXCEPT ![1].current_bid = op.amount]
          /\ last' = "Confirmed"
    /\ notice' = Message("success", "Bid placed successfully!")
    /\ isBidModalVisible' = Kept("auction", FALSE, isBidModalVisible)
    /\ bidAmount' = Kept("auction", << >>, bidAmount)
    /\ BagCardinality(reads) < limits.reads
    /\ isLoading' = Kept("auction", TRUE, isLoading)
    /\ reads' = reads (+) One(Read("get_all_auctions", chainAuctions'))
    /\ UNCHANGED notAuction
    /\ UNCHANGED <<setupVars, mounted, now, timerOn, auctions, selectedAuction>>

\* waitForTransaction rejects (the transaction failed on the ledger): catch.
BidFinalityFail ==
    /\ \E op \in InFlight(ops) :
          /\ op.kind = "place_bid" /\ op.stage = "finality"
          /\ ops' = ops (-) One(op)
          /\ last' = "ChainRejected"
    /\ notice' = Message("error", "Failed to place bid. Please try again.")
    /\ UNCHANGED notAuction
    /\ UNCHANGED <<setupVars, mounted, now, chainAuctions, reads, isLoading, auctionVars>>

\* ================================================================ MarketView
\* decodedNfts: nftList.map(...), price: nft.price / 100000000,
\* listed_at: nft.listed_at || Date.now()
DecodeNft(n) ==
    [id |-> n.id, owner |-> n.owner, name |-> TextDecode(n.name[1]),
     description |-> TextDecode(n.description[1]), price |-> Over(Number(n.price), Number(OCTAS)),
     for_sale |-> n.for_sale, rarity |-> n.rarity,
     listed_at |-> IF n.listed_at = 0 THEN now ELSE n.listed_at]

\* The map over the answer runs through: no NFT lacks its name or its
\* description, which nft.name.slice(2) would throw on.
NftsDecodable(raw) ==
    \A i \in 1..Len(raw) : raw[i].name # << >> /\ raw[i].description # << >>

DecodeNfts(raw) == [i \in 1..Len(raw) |-> DecodeNft(raw[i])]

\* The comparator of the sort mode: negative when a goes first.
Compare(a, b, mode) ==
    CASE mode = "price_asc" -> Cmp(a.price, b.price)
      [] mode = "price_desc" -> Cmp(b.price, a.price)
      [] mode = "date_asc" -> a.listed_at - b.listed_at
      [] mode = "date_desc" -> b.listed_at - a.listed_at
      [] mode = "rarity_asc" -> a.rarity - b.rarity
      [] mode = "rarity_desc" -> b.rarity - a.rarity
      [] OTHER -> 0

\* Array.prototype.sort is stable: x goes behind every element it does not
\* precede.
RECURSIVE InsertSorted(_, _, _)
InsertSorted(x, s, mode) ==
    IF s = << >> THEN <<x>>
    ELSE IF Compare(x, Head(s), mode) < 0 THEN <<x>> \o s
    ELSE <<Head(s)>> \o InsertSorted(x, Tail(s), mode)

RECURSIVE SortNfts(_, _)
SortNfts(s, mode) ==
    IF s = << >> THEN << >>
    ELSE InsertSorted(s[Len(s)], SortNfts(SubSeq(s, 1, Len(s) - 1), mode), mode)

RarityOk(n, r) == r = 0 \/ n.rarity = r
\* PriceOk as it would be with the ends of the range left out.
PriceOkExclusive(n, range) == Cmp(n.price, range[1]) > 0 /\ Cmp(n.price, range[2]) < 0

PriceOk(n, range) == Cmp(n.price, range[1]) >= 0 /\ Cmp(n.price, range[2]) <= 0

\* moment(nft.listed_at).isBetween(dateRange[0], dateRange[1], null, '[]'),
\* applied when both dates are set
DateOk(n, dates) ==
    \/ dates[1] = << >>
    \/ dates[2] = << >>
    \/ dates[1][1] <= n.listed_at /\ n.listed_at <= dates[2][1]

\* applied when the term is not empty
SearchOk(n, term) ==
    \/ term = << >>
    \/ includes(toLowerCase(n.name), toLowerCase(term))
    \/ includes(toLowerCase(n.description), toLowerCase(term))

\* applyFilters: filter by rarity (0 stands for 'all'), by price range, by
\* date range and by search term, then sort.
FilterNfts(list, r, range, dates, term, mode) ==
    LET byRarity == SelectSeq(list, LAMBDA n : RarityOk(n, r))
        byPrice == SelectSeq(byRarity, LAMBDA n : PriceOk(n, range))
        byDate == SelectSeq(byPrice, LAMBDA n : DateOk(n, dates))
        byTerm == SelectSeq(byDate, LAMBDA n : SearchOk(n, term))
    IN  SortNfts(byTerm, mode)

\* FilterCalls as it would be with no price filter: without any filter set,
\* `filtered` stays the snapshot array.
FilterCallsWithoutPrice(r, dates, term) ==
    (IF r # 0 THEN {"rarity"} ELSE {})
        \cup (IF dates[1] # << >> /\ dates[2] # << >> THEN {"date"} ELSE {})
        \cup (IF term # << >> THEN {"search"} ELSE {})

\* The filter calls applyFilters makes; each gives a new array.  The price
\* filter is called whatever the settings.
FilterCalls(r, dates, term) ==
    {"price"} \cup (IF r # 0 THEN {"rarity"} ELSE {})
              \cup (IF dates[1] # << >> /\ dates[2] # << >> THEN {"date"} ELSE {})
              \cup (IF term # << >> THEN {"search"} ELSE {})

\* let filtered = nfts; ... filtered.sort(...): the sort is in place, so it
\* sorts the snapshot array itself unless a filter call has replaced
\* `filtered` by a new array.
SnapshotAfterFilters(list, r, dates, term, mode) ==
    IF FilterCalls(r, dates, term) = {} THEN SortNfts(list, mode) ELSE list

\* useState([0, 1000]), useState([null, null]), useState('')
DefaultPriceRange == <<Number(0), Number(1000)>>
NoDates == <<<< >>, << >>>>
NoTerm == << >>

Slice(s, from, to) == SubSeq(s, from + 1, IF to < Len(s) THEN to ELSE Len(s))

\* filteredNfts.slice((p - 1) * pageSize, p * pageSize)
PageOf(p) == Slice(filteredNfts, (p - 1) * pageSize, p * pageSize)

paginatedNfts == Slice(filteredNfts, (currentPage - 1) * pageSize, currentPage * pageSize)

\* fetchNfts up to its await: setIsLoading(true); client.getAccountResource(...)
StartFetchNfts ==
    /\ BagCardinality(reads) < limits.reads
    /\ isLoading' = TRUE
    /\ reads' = reads (+) One(Read("Marketplace", chainNfts))

\* The mount effect: fetchNfts()
MarketMount ==
    /\ page = "market" /\ ~mounted
    /\ mounted' = TRUE
    /\ StartFetchNfts
    /\ Quiet
    /\ UNCHANGED notMarket
    /\ UNCHANGED <<setupVars, now, chainNfts, ops, 
                   listVars, marketVars>>

\* The view is torn down: the component's state is gone.
MarketUnmount ==
    /\ page = "market" /\ mounted
    /\ page' = "none"
    /\ mounted' = FALSE
    /\ nfts' = << >>
    /\ filteredNfts' = << >>
    /\ selectedNft' = << >>
    /\ currentPage' = 1
    /\ rarity' = 0
    /\ sortBy' = "price_asc"
    /\ priceRange' = DefaultPriceRange
    /\ dateRange' = NoDates
    /\ searchTerm' = NoTerm
    /\ isBuyModalVisible' = FALSE
    /\ isLoading' = FALSE
    /\ Quiet
    /\ UNCHANGED notMarket
    /\ UNCHANGED <<account, limits, now, chainNfts, reads, ops>>

\* FetchNftsOk as it would be with no applyFilters effect after it: what
\* setFilteredNfts(decodedNfts) stored stays.
FetchNftsOkNoEffect ==
    /\ \E r \in InFlight(reads) :
          /\ r.fn = "Marketplace"
          /\ NftsDecodable(r.val)
          /\ reads' = reads (-) One(r)
          /\ nfts' = Kept("market", DecodeNfts(r.val), nfts)
          /\ filteredNfts' = Kept("market", DecodeNfts(r.val), filteredNfts)
    /\ last' = Kept("market", "replaced", "ignored")
    /\ isLoading' = Kept("market", FALSE, isLoading)
    /\ notice' = NoNotice
    /\ UNCHANGED notMarket
    /\ UNCHANGED <<setupVars, mounted, now, chainNfts, ops, currentPage,
                   rarity, sortBy, filterVars, selectedNft, isBuyModalVisible>>

\* The read answers: setNfts(decodedNfts); setFilteredNfts(decodedNfts); finally;
\* then the applyFilters effect, which depends on nfts, runs.
FetchNftsOk ==
    /\ \E r \in InFlight(reads) :
          /\ r.fn = "Marketplace"
          /\ NftsDecodable(r.val)
          /\ reads' = reads (-) One(r)
          /\ nfts' = Kept("market",
                          SnapshotAfterFilters(DecodeNfts(r.val), rarity, dateRange,
                                               searchTerm, sortBy),
                          nfts)
          /\ filteredNfts' = Kept("market",
                                  FilterNfts(DecodeNfts(r.val), rarity, priceRange,
                                             dateRange, searchTerm, sortBy),
                                  filteredNfts)
    /\ currentPage' = Kept("market", 1, currentPage)
    /\ last' = Kept("market", "replaced", "ignored")
    /\ isLoading' = Kept("market", FALSE, isLoading)
    /\ notice' = NoNotice
    /\ UNCHANGED notMarket
    /\ UNCHANGED <<setupVars, mounted, now, chainNfts, ops,
                   rarity, sortBy, filterVars, selectedNft, isBuyModalVisible>>

\* The read answers and the map over the NFTs throws on a record: catch,
\* finally.  Nothing of the answer is stored.
FetchNftsUndecodable ==
    /\ \E r \in InFlight(reads) :
          /\ r.fn = "Marketplace"
          /\ ~NftsDecodable(r.val)
          /\ reads' = reads (-) One(r)
    /\ last' = "undecoded"
    /\ notice' = Message("error", "Failed to fetch NFTs.")
    /\ isLoading' = Kept("market", FALSE, isLoading)
    /\ UNCHANGED notMarket
    /\ UNCHANGED <<setupVars, mounted, now, chainNfts, ops,
                   listVars, marketVars>>

\* The read throws: catch, finally.
FetchNftsFail ==
    /\ \E r \in InFlight(reads) :
          /\ r.fn = "Marketplace"
          /\ reads' = reads (-) One(r)
    /\ last' = "failed"
    /\ notice' = Message("error", "Failed to fetch NFTs.")
    /\ isLoading' = Kept("market", FALSE, isLoading)
    /\ UNCHANGED notMarket
    /\ UNCHANGED <<setupVars, mounted, now, chainNfts, ops,
                   listVars, marketVars>>

\* The rarity Select's onChange, and the applyFilters effect it triggers.
setRarity ==
    /\ page = "market" /\ mounted
    /\ \E r \in 0..MaxRarity :
          /\ r # rarity
          /\ rarity' = r
          /\ nfts' = SnapshotAfterFilters(nfts, r, dateRange, searchTerm, sortBy)
          /\ filteredNfts' = FilterNfts(nfts, r, priceRange, dateRange, searchTerm, sortBy)
    /\ currentPage' = 1
    /\ Quiet
    /\ UNCHANGED notMarket
    /\ UNCHANGED <<setupVars, mounted, now, chainNfts, reads,
                   ops, isLoading, sortBy, filterVars, selectedNft,
                   isBuyModalVisible>>

\* setSortBy as it would be with applyFilters not calling setCurrentPage(1).
setSortByKeepsPage ==
    /\ page = "market" /\ mounted
    /\ \E m \in SortModes :
          /\ m # sortBy
          /\ sortBy' = m
          /\ nfts' = SnapshotAfterFilters(nfts, rarity, dateRange, searchTerm, m)
          /\ filteredNfts' = FilterNfts(nfts, rarity, priceRange, dateRange, searchTerm, m)
    /\ Quiet
    /\ UNCHANGED notMarket
    /\ UNCHANGED <<setupVars, mounted, now, chainNfts, reads,
                   ops, isLoading, rarity, filterVars, selectedNft,
                   currentPage, isBuyModalVisible>>

\* The sort Select's onChange, and the applyFilters effect it triggers.
setSortBy ==
    /\ page = "market" /\ mounted
    /\ \E m \in SortModes :
          /\ m # sortBy
          /\ sortBy' = m
          /\ nfts' = SnapshotAfterFilters(nfts, rarity, dateRange, searchTerm, m)
          /\ filteredNfts' = FilterNfts(nfts, rarity, priceRange, dateRange, searchTerm, m)
    /\ currentPage' = 1
    /\ Quiet
    /\ UNCHANGED notMarket
    /\ UNCHANGED <<setupVars, mounted, now, chainNfts, reads,
                   ops, isLoading, rarity, filterVars, selectedNft,
                   isBuyModalVisible>>

\* The values the price Slider, the RangePicker and the search Input are
\* moved to.
PriceRanges == {DefaultPriceRange, <<Number(3), Number(5)>>, <<Number(4), Number(1000)>>}
DateRanges == {NoDates, <<<<MsPerSec>>, <<2 * MsPerSec>>>>, <<<<2 * MsPerSec>>, << >>>>}
SearchTerms == {NoTerm, <<"a">>, <<"A", "b">>, <<"B">>}

\* The price Slider's onChange, and the applyFilters effect it triggers.
setPriceRange ==
    /\ page = "market" /\ mounted
    /\ \E range \in PriceRanges :
          /\ range # priceRange
          /\ priceRange' = range
          /\ nfts' = SnapshotAfterFilters(nfts, rarity, dateRange, searchTerm, sortBy)
          /\ filteredNfts' = FilterNfts(nfts, rarity, range, dateRange, searchTerm, sortBy)
    /\ currentPage' = 1
    /\ Quiet
    /\ UNCHANGED notMarket
    /\ UNCHANGED <<setupVars, mounted, now, chainNfts, reads,
                   ops, isLoading, rarity, sortBy, dateRange, searchTerm,
                   selectedNft, isBuyModalVisible>>

\* The RangePicker's onChange, and the applyFilters effect it triggers.
setDateRange ==
    /\ page = "market" /\ mounted
    /\ \E dates \in DateRanges :
          /\ dates # dateRange
          /\ dateRange' = dates
          /\ nfts' = SnapshotAfterFilters(nfts, rarity, dates, searchTerm, sortBy)
          /\ filteredNfts' = FilterNfts(nfts, rarity, priceRange, dates, searchTerm, sortBy)
    /\ currentPage' = 1
    /\ Quiet
    /\ UNCHANGED notMarket
    /\ UNCHANGED <<setupVars, mounted, now, chainNfts, reads,
                   ops, isLoading, rarity, sortBy, priceRange, searchTerm,
                   selectedNft, isBuyModalVisible>>

\* The search Input's onChange, and the applyFilters effect it triggers.
setSearchTerm ==
    /\ page = "market" /\ mounted
    /\ \E term \in SearchTerms :
          /\ term # searchTerm
          /\ searchTerm' = term
          /\ nfts' = SnapshotAfterFilters(nfts, rarity, dateRange, term, sortBy)
          /\ filteredNfts' = FilterNfts(nfts, rarity, priceRange, dateRange, term, sortBy)
    /\ currentPage' = 1
    /\ Quiet
    /\ UNCHANGED notMarket
    /\ UNCHANGED <<setupVars, mounted, now, chainNfts, reads,
                   ops, isLoading, rarity, sortBy, priceRange, dateRange,
                   selectedNft, isBuyModalVisible>>

\* PaginationTotal as it would be with total={nfts.length}.
PaginationTotalUnfiltered == Len(nfts)

\* <Pagination total={filteredNfts.length}>, and the pages it offers
PaginationTotal == Len(filteredNfts)
PageCount == (PaginationTotal + pageSize - 1) \div pageSize

\* The Pagination's onChange; it is rendered when the spinner is not.
setCurrentPage ==
    /\ page = "market" /\ mounted /\ ~isLoading
    /\ \E p \in 1..PageCount :
          /\ p # currentPage
          /\ currentPage' = p
    /\ Quiet
    /\ UNCHANGED notMarket
    /\ UNCHANGED <<setupVars, mounted, now, chainNfts, reads,
                   ops, isLoading, nfts, selectedNft, marketVars>>

\* A card's Buy button; the cards are rendered when the spinner is not, and an
\* open modal masks them.
handleBuyClick ==
    /\ page = "market" /\ mounted /\ ~isLoading /\ ~isBuyModalVisible
    /\ \E i \in 1..Len(paginatedNfts) :
          /\ selectedNft' = <<paginatedNfts[i]>>
    /\ isBuyModalVisible' = TRUE
    /\ Quiet
    /\ UNCHANGED notMarket
    /\ UNCHANGED <<setupVars, mounted, now, chainNfts, reads,
                   ops, isLoading, nfts, filteredNfts, currentPage,
                   rarity, sortBy, filterVars>>

handleCancelBuy ==
    /\ page = "market" /\ isBuyModalVisible
    /\ isBuyModalVisible' = FALSE
    /\ selectedNft' = << >>
    /\ Quiet
    /\ UNCHANGED notMarket
    /\ UNCHANGED <<setupVars, mounted, now, chainNfts, reads,
                   ops, isLoading, nfts, filteredNfts, currentPage,
                   rarity, sortBy, filterVars>>

\* handleConfirmPurchase up to its first await: the intent goes to the wallet.
handleConfirmPurchase ==
    /\ page = "market" /\ isBuyModalVisible
    /\ selectedNft # << >>
    /\ BagCardinality(ops) < limits.ops
    /\ ops' = ops (+) One(Intent("purchase_nft", selectedNft[1].id, Times(selectedNft[1].price, Number(OCTAS))))
    /\ Quiet
    /\ UNCHANGED notMarket
    /\ UNCHANGED <<setupVars, mounted, now, chainNfts, reads,
                   isLoading, listVars, marketVars>>

PurchaseWalletResolve ==
    /\ WalletResolve("purchase_nft")
    /\ Quiet
    /\ UNCHANGED notMarket
    /\ UNCHANGED <<setupVars, mounted, now, chainNfts, reads,
                   isLoading, listVars, marketVars>>

\* signAndSubmitTransaction rejects: catch.
PurchaseWalletReject ==
    /\ \E op \in InFlight(ops) :
          /\ op.kind = "purchase_nft" /\ op.stage = "wallet"
          /\ ops' = ops (-) One(op)
          /\ last' = "UserRejected"
    /\ notice' = Message("error", "Failed to purchase NFT.")
    /\ UNCHANGED notMarket
    /\ UNCHANGED <<setupVars, mounted, now, chainNfts, reads,
                   isLoading, listVars, marketVars>>

\* The ledger sells an NFT that is for sale, at its price, to another account;
\* the payment is a u64, a whole number.
ChainAcceptsPurchase(op) ==
    \E i \in 1..Len(chainNfts) :
        /\ chainNfts[i].id = op.id
        /\ chainNfts[i].for_sale
        /\ chainNfts[i].owner # account
        /\ op.amount.e >= 0
        /\ Cmp(op.amount, Number(chainNfts[i].price)) >= 0

ChainPurchase(id, buyer) ==
    [i \in 1..Len(chainNfts) |->
        IF chainNfts[i].id = id
        THEN [chainNfts[i] EXCEPT !.owner = buyer, !.for_sale = FALSE]
        ELSE chainNfts[i]]

\* waitForTransaction resolves: success notice, modal closed, fetchNfts().
PurchaseFinalityOk ==
    /\ \E op \in InFlight(ops) :
          /\ op.kind = "purchase_nft" /\ op.stage = "finality"
          /\ ChainAcceptsPurchase(op)
          /\ ops' = ops (-) One(op)
          /\ chainNfts' = ChainPurchase(op.id, account)
          /\ last' = "Confirmed"
    /\ notice' = Message("success", "NFT purchased successfully!")
    /\ isBuyModalVisible' = Kept("market", FALSE, isBuyModalVisible)
    /\ BagCardinality(reads) < limits.reads
    /\ isLoading' = Kept("market", TRUE, isLoading)
    /\ reads' = reads (+) One(Read("Marketplace", chainNfts'))
    /\ UNCHANGED notMarket
    /\ UNCHANGED <<setupVars, mounted, now, nfts,
                   filteredNfts, currentPage, rarity, sortBy, filterVars,
                   selectedNft>>

\* waitForTransaction rejects: catch.
PurchaseFinalityFail ==
    /\ \E op \in InFlight(ops) :
          /\ op.kind = "purchase_nft" /\ op.stage = "finality"
          /\ ops' = ops (-) One(op)
          /\ last' = "ChainRejected"
    /\ notice' = Message("error", "Failed to purchase NFT.")
    /\ UNCHANGED notMarket
    /\ UNCHANGED <<setupVars, mounted, now, chainNfts, reads,
                   isLoading, listVars, marketVars>>

\* Somebody else buys an NFT that is for sale.
ChainOtherBuys ==
    /\ page = "market" /\ mounted
    /\ \E i \in 1..Len(chainNfts) :
          /\ chainNfts[i].for_sale
          /\ chainNfts[i].owner # "carol"
          /\ chainNfts' = ChainPurchase(chainNfts[i].id, "carol")
    /\ Quiet
    /\ UNCHANGED notMarket
    /\ UNCHANGED <<setupVars, mounted, now, reads, ops, 
                   isLoading, listVars, marketVars>>

\* ================================================================ MyNFTs
\* The ids get_all_nfts_for_owner answers with, from the ledger value raw.
OwnedIds(raw, owner) ==
    LET mine == SelectSeq(raw, LAMBDA n : n.owner = owner)
    IN  [i \in 1..Len(mine) |-> mine[i].id]

\* What get_nft_details answers for id, decoded (price / 100000000).
NftDetails(raw, id) ==
    LET n == CHOOSE x \in {raw[i] : i \in 1..Len(raw)} : x.id = id
    IN  [id |-> n.id, price |-> n.price \div OCTAS, for_sale |-> n.for_sale,
         rarity |-> n.rarity]

\* The fan-out's result: the details of the ids whose read did not fail, in
\* the order of the ids.
DetailsOf(raw, ids, failed) ==
    LET kept == SelectSeq(ids, LAMBDA id : id \notin failed)
    IN  [i \in 1..Len(kept) |-> NftDetails(raw, kept[i])]

SeqToSet(s) == {s[i] : i \in 1..Len(s)}

paginatedNFTs == Slice(nfts, (currentPage - 1) * pageSize, currentPage * pageSize)

\* MyNFTs.fetchUserNFTs up to its first await: if (!account) return;
\* setIsLoading(true); client.view(get_all_nfts_for_owner)
StartFetchUserNFTs ==
    IF account = "none"
    THEN UNCHANGED <<isLoading, reads>>
    ELSE /\ BagCardinality(reads) < limits.reads
         /\ isLoading' = TRUE
         /\ reads' = reads (+) One(Read("get_all_nfts_for_owner", OwnedIds(chainNfts, account)))

\* The mount effect: fetchUserNFTs()
MyMount ==
    /\ page = "my" /\ ~mounted
    /\ mounted' = TRUE
    /\ StartFetchUserNFTs
    /\ Quiet
    /\ UNCHANGED notMy
    /\ UNCHANGED <<setupVars, now, chainNfts, ops, listVars, myVars>>

\* The id read answers: setTotalNFTs(nftIds.length); with no ids, setNfts([])
\* and return (finally); otherwise the detail reads of all ids are issued.
MyFetchIdsOk ==
    /\ page = "my"
    /\ \E r \in InFlight(reads) :
          /\ r.fn = "get_all_nfts_for_owner"
          /\ LET ids == r.val IN
                /\ totalNFTs' = Len(ids)
                /\ IF Len(ids) = 0
                   THEN /\ nfts' = << >>
                        /\ reads' = reads (-) One(r)
                        /\ last' = "replaced"
                        /\ isLoading' = FALSE
                   ELSE /\ reads' = (reads (-) One(r))
                                    (+) One(Read("get_nft_details", [ids |-> ids, raw |-> chainNfts]))
                        /\ last' = "none"
                        /\ UNCHANGED <<nfts, isLoading>>
    /\ notice' = NoNotice
    /\ UNCHANGED notMy
    /\ UNCHANGED <<setupVars, mounted, now, chainNfts, ops, selectedNft,
                   currentPage, salePrice, isModalVisible, isAuctionModalVisible,
                   auctionStartingPrice, auctionEndTime>>

\* The id read throws: catch, finally.
MyFetchIdsFail ==
    /\ page = "my"
    /\ \E r \in InFlight(reads) :
          /\ r.fn = "get_all_nfts_for_owner"
          /\ reads' = reads (-) One(r)
    /\ last' = "failed"
    /\ notice' = Message("error", "Failed to fetch your NFTs.")
    /\ isLoading' = FALSE
    /\ UNCHANGED notMy
    /\ UNCHANGED <<setupVars, mounted, now, chainNfts, ops, listVars, myVars>>

\* Promise.all settles: each detail read has answered or thrown; one that
\* threw was caught, logged and mapped to null, and the nulls are filtered out.
\* setNfts(userNFTs); finally.
MyFetchDetailsDone ==
    /\ page = "my"
    /\ \E r \in InFlight(reads) :
          /\ r.fn = "get_nft_details"
          /\ reads' = reads (-) One(r)
          /\ \E failed \in SUBSET SeqToSet(r.val.ids) :
                /\ nfts' = DetailsOf(r.val.raw, r.val.ids, failed)
                /\ last' = IF failed = {} THEN "replaced" ELSE "partial"
    /\ isLoading' = FALSE
    /\ notice' = NoNotice
    /\ UNCHANGED notMy
    /\ UNCHANGED <<setupVars, mounted, now, chainNfts, ops, selectedNft,
                   currentPage, myVars>>

\* The cards are rendered when the spinner is not, and an open modal masks them.
MyCardsClickable == ~isLoading /\ ~isModalVisible /\ ~isAuctionModalVisible

handleSellClick ==
    /\ page = "my" /\ mounted /\ MyCardsClickable
    /\ \E i \in 1..Len(paginatedNFTs) : selectedNft' = <<paginatedNFTs[i]>>
    /\ isModalVisible' = TRUE
    /\ Quiet
    /\ UNCHANGED notMy
    /\ UNCHANGED <<setupVars, mounted, now, chainNfts, reads, ops, 
                   isLoading, nfts, currentPage, totalNFTs, salePrice,
                   isAuctionModalVisible, auctionStartingPrice, auctionEndTime>>

handleAuctionClick ==
    /\ page = "my" /\ mounted /\ MyCardsClickable
    /\ \E i \in 1..Len(paginatedNFTs) : selectedNft' = <<paginatedNFTs[i]>>
    /\ isAuctionModalVisible' = TRUE
    /\ Quiet
    /\ UNCHANGED notMy
    /\ UNCHANGED <<setupVars, mounted, now, chainNfts, reads, ops, 
                   isLoading, nfts, currentPage, totalNFTs, salePrice,
                   isModalVisible, auctionStartingPrice, auctionEndTime>>

handleCancel ==
    /\ page = "my" /\ (isModalVisible \/ isAuctionModalVisible)
    /\ isModalVisible' = FALSE
    /\ isAuctionModalVisible' = FALSE
    /\ selectedNft' = << >>
    /\ salePrice' = << >>
    /\ auctionStartingPrice' = << >>
    /\ auctionEndTime' = << >>
    /\ Quiet
    /\ UNCHANGED notMy
    /\ UNCHANGED <<setupVars, mounted, now, chainNfts, reads, ops, 
                   isLoading, nfts, currentPage, totalNFTs>>

\* The sale price input's onChange: "" or a number, which may be negative.
setSalePrice ==
    /\ page = "my" /\ isModalVisible /\ selectedNft # << >>
    /\ \E v \in Typed : v # salePrice /\ salePrice' = v
    /\ Quiet
    /\ UNCHANGED notMy
    /\ UNCHANGED <<setupVars, mounted, now, chainNfts, reads, ops, 
                   isLoading, listVars, totalNFTs, isModalVisible,
                   isAuctionModalVisible, auctionStartingPrice, auctionEndTime>>

setAuctionStartingPrice ==
    /\ page = "my" /\ isAuctionModalVisible /\ selectedNft # << >>
    /\ \E v \in Typed : v # auctionStartingPrice /\ auctionStartingPrice' = v
    /\ Quiet
    /\ UNCHANGED notMy
    /\ UNCHANGED <<setupVars, mounted, now, chainNfts, reads, ops, 
                   isLoading, listVars, totalNFTs, salePrice, isModalVisible,
                   isAuctionModalVisible, auctionEndTime>>

\* The DatePicker's onChange: null or a moment, here in seconds.
setAuctionEndTime ==
    /\ page = "my" /\ isAuctionModalVisible /\ selectedNft # << >>
    /\ \E v \in {<< >>, <<MaxTime>>} : v # auctionEndTime /\ auctionEndTime' = v
    /\ Quiet
    /\ UNCHANGED notMy
    /\ UNCHANGED <<setupVars, mounted, now, chainNfts, reads, ops, 
                   isLoading, listVars, totalNFTs, salePrice, isModalVisible,
                   isAuctionModalVisible, auctionStartingPrice>>

\* handleConfirmListing up to its first await: if (!selectedNft || !salePrice)
\* return; the intent goes to the wallet.
handleConfirmListing ==
    /\ page = "my" /\ isModalVisible
    /\ selectedNft # << >> /\ salePrice # << >>
    /\ BagCardinality(ops) < limits.ops
    /\ ops' = ops (+) One(Intent("list_for_sale", selectedNft[1].id, salePrice[1] * OCTAS))
    /\ Quiet
    /\ UNCHANGED notMy
    /\ UNCHANGED <<setupVars, mounted, now, chainNfts, reads, 
                   isLoading, listVars, myVars>>

ListingWalletResolve ==
    /\ WalletResolve("list_for_sale")
    /\ Quiet
    /\ UNCHANGED notMy
    /\ UNCHANGED <<setupVars, mounted, now, chainNfts, reads, 
                   isLoading, listVars, myVars>>

ListingWalletReject ==
    /\ \E op \in InFlight(ops) :
          /\ op.kind = "list_for_sale" /\ op.stage = "wallet"
          /\ ops' = ops (-) One(op)
          /\ last' = "UserRejected"
    /\ notice' = Message("error", "Failed to list NFT for sale.")
    /\ UNCHANGED notMy
    /\ UNCHANGED <<setupVars, mounted, now, chainNfts, reads, isLoading, listVars,
                   myVars>>

\* The ledger lists or auctions an NFT of the sender at an amount that is not
\* negative.
ChainAcceptsOwner(op) ==
    /\ op.amount >= 0
    /\ \E i \in 1..Len(chainNfts) :
          chainNfts[i].id = op.id /\ chainNfts[i].owner = account

ChainListing(id, amount) ==
    [i \in 1..Len(chainNfts) |->
        IF chainNfts[i].id = id
        THEN [chainNfts[i] EXCEPT !.price = amount, !.for_sale = TRUE]
        ELSE chainNfts[i]]

\* waitForTransaction resolves: success notice, modal closed, price cleared,
\* fetchUserNFTs().
ListingFinalityOk ==
    /\ \E op \in InFlight(ops) :
          /\ op.kind = "list_for_sale" /\ op.stage = "finality"
          /\ ChainAcceptsOwner(op)
          /\ ops' = ops (-) One(op)
          /\ chainNfts' = ChainListing(op.id, op.amount)
          /\ last' = "Confirmed"
    /\ notice' = Message("success", "NFT listed for sale successfully!")
    /\ isModalVisible' = FALSE
    /\ salePrice' = << >>
    /\ IF account = "none"
       THEN UNCHANGED <<isLoading, reads>>
       ELSE /\ BagCardinality(reads) < limits.reads
            /\ isLoading' = TRUE
            /\ reads' = reads (+) One(Read("get_all_nfts_for_owner", OwnedIds(chainNfts', account)))
    /\ UNCHANGED notMy
    /\ UNCHANGED <<setupVars, mounted, now, listVars, totalNFTs,
                   isAuctionModalVisible, auctionStartingPrice, auctionEndTime>>

ListingFinalityFail ==
    /\ \E op \in InFlight(ops) :
          /\ op.kind = "list_for_sale" /\ op.stage = "finality"
          /\ ops' = ops (-) One(op)
          /\ last' = "ChainRejected"
    /\ notice' = Message("error", "Failed to list NFT for sale.")
    /\ UNCHANGED notMy
    /\ UNCHANGED <<setupVars, mounted, now, chainNfts, reads, isLoading, listVars,
                   myVars>>

\* handleConfirmAuction and createAuction up to its first await: without an
\* account an error is shown; otherwise the intent goes to the wallet.
handleConfirmAuction ==
    /\ page = "my" /\ isAuctionModalVisible
    /\ selectedNft # << >> /\ auctionStartingPrice # << >> /\ auctionEndTime # << >>
    /\ IF account = "none"
       THEN /\ notice' = Message("error", "Please connect your wallet to create an auction.")
            /\ UNCHANGED ops
       ELSE /\ BagCardinality(ops) < limits.ops
            /\ ops' = ops (+) One(Intent("create_auction", selectedNft[1].id,
                                         auctionStartingPrice[1] * OCTAS))
            /\ notice' = NoNotice
    /\ last' = "none"
    /\ UNCHANGED notMy
    /\ UNCHANGED <<setupVars, mounted, now, chainNfts, reads, isLoading,
                   listVars, myVars>>

AuctionWalletResolve ==
    /\ WalletResolve("create_auction")
    /\ Quiet
    /\ UNCHANGED notMy
    /\ UNCHANGED <<setupVars, mounted, now, chainNfts, reads, 
                   isLoading, listVars, myVars>>

AuctionWalletReject ==
    /\ \E op \in InFlight(ops) :
          /\ op.kind = "create_auction" /\ op.stage = "wallet"
          /\ ops' = ops (-) One(op)
          /\ last' = "UserRejected"
    /\ notice' = Message("error", "Failed to create auction. Please try again.")
    /\ UNCHANGED notMy
    /\ UNCHANGED <<setupVars, mounted, now, chainNfts, reads, isLoading, listVars,
                   myVars>>

\* waitForTransaction resolves: success notice, modal closed, fields cleared,
\* fetchUserNFTs().
AuctionFinalityOk ==
    /\ \E op \in InFlight(ops) :
          /\ op.kind = "create_auction" /\ op.stage = "finality"
          /\ ChainAcceptsOwner(op)
          /\ ops' = ops (-) One(op)
          /\ last' = "Confirmed"
    /\ notice' = Message("success", "Auction created successfully!")
    /\ isAuctionModalVisible' = FALSE
    /\ auctionStartingPrice' = << >>
    /\ auctionEndTime' = << >>
    /\ BagCardinality(reads) < limits.reads
    /\ isLoading' = TRUE
    /\ reads' = reads (+) One(Read("get_all_nfts_for_owner", OwnedIds(chainNfts, account)))
    /\ UNCHANGED notMy
    /\ UNCHANGED <<setupVars, mounted, now, chainNfts, listVars, totalNFTs, salePrice,
                   isModalVisible>>

AuctionFinalityFail ==
    /\ \E op \in InFlight(ops) :
          /\ op.kind = "create_auction" /\ op.stage = "finality"
          /\ ops' = ops (-) One(op)
          /\ last' = "ChainRejected"
    /\ notice' = Message("error", "Failed to create auction. Please try again.")
    /\ UNCHANGED notMy
    /\ UNCHANGED <<setupVars, mounted, now, chainNfts, reads, isLoading, listVars,
                   myVars>>
\* ================================================================ NFTFusion
\* What the fan-out of NFTFusion.fetchUserNFTs decodes for one id.
FusionDetails(raw, id) ==
    LET n == CHOOSE x \in {raw[i] : i \in 1..Len(raw)} : x.id = id
    IN  [id |-> n.id, rarity |-> n.rarity]

\* The ids of a fan-out that the ledger no longer holds: their read throws.
Missing(raw, ids) == {id \in SeqToSet(ids) : \A i \in 1..Len(raw) : raw[i].id # id}

\* NFTFusion.fetchUserNFTs up to its first await: if (!account) return;
\* setIsLoading(true); client.view(get_all_nfts_for_owner)
FusionStartFetch(raw) ==
    IF account = "none"
    THEN UNCHANGED <<isLoading, reads>>
    ELSE /\ isLoading' = TRUE
         /\ reads' = reads (+) One(Read("get_all_nfts_for_owner", OwnedIds(raw, account)))

\* The mount effect: if (account) fetchUserNFTs()
FusionMount ==
    /\ page = "fusion" /\ ~mounted
    /\ mounted' = TRUE
    /\ FusionStartFetch(chainNfts)
    /\ Quiet
    /\ UNCHANGED notFusion
    /\ UNCHANGED <<setupVars, now, chainNfts, ops, fusionVars>>

\* The id read answers.  With no ids Promise.all resolves at once:
\* setUserNFTs([]), finally; otherwise the detail reads of all ids are issued.
FusionFetchIdsOk ==
    /\ page = "fusion"
    /\ \E r \in InFlight(reads) :
          /\ r.fn = "get_all_nfts_for_owner"
          /\ LET ids == r.val IN
                IF Len(ids) = 0
                THEN /\ userNFTs' = << >>
                     /\ reads' = reads (-) One(r)
                     /\ last' = "replaced"
                     /\ isLoading' = FALSE
                ELSE /\ reads' = (reads (-) One(r))
                                 (+) One(Read("get_nft_details", [ids |-> ids, raw |-> chainNfts]))
                     /\ last' = "none"
                     /\ UNCHANGED <<userNFTs, isLoading>>
    /\ notice' = NoNotice
    /\ UNCHANGED notFusion
    /\ UNCHANGED <<setupVars, mounted, now, chainNfts, ops, selectedNFTs, isFusing,
                   fusionResult>>

\* The id read throws: catch, finally.
FusionFetchIdsFail ==
    /\ page = "fusion"
    /\ \E r \in InFlight(reads) :
          /\ r.fn = "get_all_nfts_for_owner"
          /\ reads' = reads (-) One(r)
    /\ last' = "failed"
    /\ notice' = Message("error", "Failed to fetch your NFTs.")
    /\ isLoading' = FALSE
    /\ UNCHANGED notFusion
    /\ UNCHANGED <<setupVars, mounted, now, chainNfts, ops, fusionVars>>

\* Promise.all resolves, every detail read having answered: setUserNFTs(nfts);
\* finally.
FusionFetchDetailsOk ==
    /\ page = "fusion"
    /\ \E r \in InFlight(reads) :
          /\ r.fn = "get_nft_details"
          /\ Missing(r.val.raw, r.val.ids) = {}
          /\ reads' = reads (-) One(r)
          /\ userNFTs' = [i \in 1..Len(r.val.ids) |-> FusionDetails(r.val.raw, r.val.ids[i])]
    /\ last' = "replaced"
    /\ isLoading' = FALSE
    /\ notice' = NoNotice
    /\ UNCHANGED notFusion
    /\ UNCHANGED <<setupVars, mounted, now, chainNfts, ops, selectedNFTs, isFusing,
                   fusionResult>>

\* Promise.all rejects, one detail read having thrown: catch, finally.  The
\* fan-out has no catch of its own.
FusionFetchDetailsFail ==
    /\ page = "fusion"
    /\ \E r \in InFlight(reads) :
          /\ r.fn = "get_nft_details"
          /\ reads' = reads (-) One(r)
    /\ last' = "failed"
    /\ notice' = Message("error", "Failed to fetch your NFTs.")
    /\ isLoading' = FALSE
    /\ UNCHANGED notFusion
    /\ UNCHANGED <<setupVars, mounted, now, chainNfts, ops, fusionVars>>

\* The cards and the Fuse button are rendered when the spinner is not, and the
\* Fusion Result modal, rendered with them, masks them while it is open.
FusionClickable == ~isLoading /\ fusionResult = << >>

\* handleNFTSelect as it would be without the find: a click on a selected
\* card selects it a second time.
handleNFTSelectNoToggle ==
    /\ page = "fusion" /\ mounted /\ FusionClickable
    /\ \E i \in 1..Len(userNFTs) :
          IF Len(selectedNFTs) < 2
          THEN /\ selectedNFTs' = Append(selectedNFTs, userNFTs[i])
               /\ notice' = NoNotice
          ELSE /\ notice' = Message("warning", "You can only select two NFTs for fusion.")
               /\ UNCHANGED selectedNFTs
    /\ last' = "none"
    /\ UNCHANGED notFusion
    /\ UNCHANGED <<setupVars, mounted, now, chainNfts, reads, ops, isLoading,
                   userNFTs, isFusing, fusionResult>>

\* A click on a card: a selected NFT is deselected, another is selected if
\* fewer than two are, and otherwise a warning is shown.
handleNFTSelect ==
    /\ page = "fusion" /\ mounted /\ FusionClickable
    /\ \E i \in 1..Len(userNFTs) :
          LET nft == userNFTs[i] IN
             IF \E j \in 1..Len(selectedNFTs) : selectedNFTs[j].id = nft.id
             THEN /\ selectedNFTs' = SelectSeq(selectedNFTs, LAMBDA s : s.id # nft.id)
                  /\ notice' = NoNotice
             ELSE IF Len(selectedNFTs) < 2
             THEN /\ selectedNFTs' = Append(selectedNFTs, nft)
                  /\ notice' = NoNotice
             ELSE /\ notice' = Message("warning", "You can only select two NFTs for fusion.")
                  /\ UNCHANGED selectedNFTs
    /\ last' = "none"
    /\ UNCHANGED notFusion
    /\ UNCHANGED <<setupVars, mounted, now, chainNfts, reads, ops, isLoading,
                   userNFTs, isFusing, fusionResult>>

\* The Fuse button: disabled={selectedNFTs.length !== 2 || isFusing}
FuseDisabled == Len(selectedNFTs) # 2 \/ isFusing

\* handleFusion up to its first await: setIsFusing(true); the intent goes to
\* the wallet.
handleFusion ==
    /\ page = "fusion" /\ mounted /\ FusionClickable /\ ~FuseDisabled
    /\ Len(selectedNFTs) = 2
    /\ isFusing' = TRUE
    /\ ops' = ops (+) One(Intent("fuse_nfts", <<selectedNFTs[1].id, selectedNFTs[2].id>>, 0))
    /\ Quiet
    /\ UNCHANGED notFusion
    /\ UNCHANGED <<setupVars, mounted, now, chainNfts, reads, isLoading, userNFTs,
                   selectedNFTs, fusionResult>>

FuseWalletResolve ==
    /\ WalletResolve("fuse_nfts")
    /\ Quiet
    /\ UNCHANGED notFusion
    /\ UNCHANGED <<setupVars, mounted, now, chainNfts, reads, isLoading, fusionVars>>

\* FuseWalletReject as it would be with setIsFusing(false) at the end of the
\* try block in place of the finally block.
FuseWalletRejectKeepsFusing ==
    /\ \E op \in InFlight(ops) :
          /\ op.kind = "fuse_nfts" /\ op.stage = "wallet"
          /\ ops' = ops (-) One(op)
          /\ last' = "UserRejected"
    /\ notice' = Message("error", "Failed to fuse NFTs. Please try again.")
    /\ UNCHANGED notFusion
    /\ UNCHANGED <<setupVars, mounted, now, chainNfts, reads, isLoading, fusionVars>>

\* signAndSubmitTransaction rejects: catch, finally.
FuseWalletReject ==
    /\ \E op \in InFlight(ops) :
          /\ op.kind = "fuse_nfts" /\ op.stage = "wallet"
          /\ ops' = ops (-) One(op)
          /\ last' = "UserRejected"
    /\ notice' = Message("error", "Failed to fuse NFTs. Please try again.")
    /\ isFusing' = FALSE
    /\ UNCHANGED notFusion
    /\ UNCHANGED <<setupVars, mounted, now, chainNfts, reads, isLoading, userNFTs,
                   selectedNFTs, fusionResult>>

\* The ledger fuses two different NFTs of the sender.
ChainAcceptsFuse(op) ==
    /\ op.id[1] # op.id[2]
    /\ \A k \in 1..2 : \E i \in 1..Len(chainNfts) :
          chainNfts[i].id = op.id[k] /\ chainNfts[i].owner = account

\* The ledger after a fusion: the two inputs are burned and a new NFT, as rare
\* as the rarer of the two, is minted to the sender under the next id.
ChainFuse(ids, owner) ==
    LET burned == SelectSeq(chainNfts, LAMBDA n : n.id \in SeqToSet(ids))
        rest == SelectSeq(chainNfts, LAMBDA n : n.id \notin SeqToSet(ids))
        top == CHOOSE m \in SeqToSet(chainNfts) : \A n \in SeqToSet(chainNfts) : n.id <= m.id
        rarest == CHOOSE m \in SeqToSet(burned) : \A n \in SeqToSet(burned) : n.rarity <= m.rarity
    IN  Append(rest, [id |-> top.id + 1, owner |-> owner, price |-> 0, for_sale |-> FALSE,
                      rarity |-> rarest.rarity, listed_at |-> MsPerSec])

\* waitForTransaction resolves, and the handler goes on to
\* client.view(get_last_minted_nft).
FuseFinalityOk ==
    /\ \E op \in InFlight(ops) :
          /\ op.kind = "fuse_nfts" /\ op.stage = "finality"
          /\ ChainAcceptsFuse(op)
          /\ ops' = (ops (-) One(op)) (+) One([op EXCEPT !.stage = "minted"])
          /\ chainNfts' = ChainFuse(op.id, account)
    /\ Quiet
    /\ UNCHANGED notFusion
    /\ UNCHANGED <<setupVars, mounted, now, reads, isLoading, fusionVars>>

\* waitForTransaction rejects: catch, finally.
FuseFinalityFail ==
    /\ \E op \in InFlight(ops) :
          /\ op.kind = "fuse_nfts" /\ op.stage = "finality"
          /\ ops' = ops (-) One(op)
          /\ last' = "ChainRejected"
    /\ notice' = Message("error", "Failed to fuse NFTs. Please try again.")
    /\ isFusing' = FALSE
    /\ UNCHANGED notFusion
    /\ UNCHANGED <<setupVars, mounted, now, chainNfts, reads, isLoading, userNFTs,
                   selectedNFTs, fusionResult>>

\* What get_last_minted_nft answers, decoded: the sender's NFT of the highest id.
LastMinted(raw, owner) ==
    LET mine == {n \in SeqToSet(raw) : n.owner = owner}
        n == CHOOSE m \in mine : \A o \in mine : o.id <= m.id
    IN  [id |-> n.id, rarity |-> n.rarity]

\* The read of the minted NFT answers: setFusionResult(newNFT), success notice,
\* fetchUserNFTs(), finally.
FuseMintedOk ==
    /\ \E op \in InFlight(ops) :
          /\ op.kind = "fuse_nfts" /\ op.stage = "minted"
          /\ ops' = ops (-) One(op)
    /\ fusionResult' = <<LastMinted(chainNfts, account)>>
    /\ notice' = Message("success", "NFT Fusion successful!")
    /\ FusionStartFetch(chainNfts)
    /\ isFusing' = FALSE
    /\ last' = "Confirmed"
    /\ UNCHANGED notFusion
    /\ UNCHANGED <<setupVars, mounted, now, chainNfts, userNFTs, selectedNFTs>>

\* The read of the minted NFT throws: catch, finally.  fetchUserNFTs() is
\* not reached.
FuseMintedFail ==
    /\ \E op \in InFlight(ops) :
          /\ op.kind = "fuse_nfts" /\ op.stage = "minted"
          /\ ops' = ops (-) One(op)
    /\ notice' = Message("error", "Failed to fuse NFTs. Please try again.")
    /\ isFusing' = FALSE
    /\ last' = "Aborted"
    /\ UNCHANGED notFusion
    /\ UNCHANGED <<setupVars, mounted, now, chainNfts, reads, isLoading, userNFTs,
                   selectedNFTs, fusionResult>>

\* The Fusion Result modal's OK and Cancel: setFusionResult(null)
closeFusionResult ==
    /\ page = "fusion" /\ ~isLoading /\ fusionResult # << >>
    /\ fusionResult' = << >>
    /\ Quiet
    /\ UNCHANGED notFusion
    /\ UNCHANGED <<setupVars, mounted, now, chainNfts, reads, ops, isLoading,
                   userNFTs, selectedNFTs, isFusing>>


\* ================================================================ the system
InitChainAuctions ==
    {<<[id |-> 1, seller |-> s, current_bid |-> 0, end_time |-> MaxTime - 1,
        nft_details |-> <<[name |-> Bytes(<<"A", "b">>)]>>]>> :
        s \in {"alice", "bob"}}

\* The ledger may also hold an auction that comes without its nft_details.
InitAuctionLedgers ==
    InitChainAuctions \cup
    {Append(a, [id |-> 2, seller |-> "bob", current_bid |-> 0, end_time |-> MaxTime - 1,
                nft_details |-> << >>]) :
        a \in {b \in InitChainAuctions : b[1].seller = "bob"}}

\* MarketView sees two NFTs, one of them for sale; on MyNFTs alice owns two
\* NFTs and bob a third; on NFTFusion alice owns three.
InitChainNfts(p) ==
    IF p = "market"
    THEN <<[id |-> 1, owner |-> "alice", name |-> <<Bytes(<<"A", "b">>)>>,
            description |-> <<Bytes(<<"b">>)>>, price |-> 2 * OCTAS,
            for_sale |-> FALSE, rarity |-> 2, listed_at |-> MsPerSec],
           [id |-> 2, owner |-> "bob", name |-> <<Bytes(<<"b", "a">>)>>,
            description |-> <<Bytes(<<"B">>)>>, price |-> OCTAS,
            for_sale |-> TRUE, rarity |-> 1, listed_at |-> MsPerSec]>>
    ELSE IF p = "fusion"
    THEN <<[id |-> 1, owner |-> "alice", price |-> 0, for_sale |-> FALSE,
            rarity |-> 2, listed_at |-> MsPerSec],
           [id |-> 2, owner |-> "alice", price |-> 0, for_sale |-> FALSE,
            rarity |-> 1, listed_at |-> MsPerSec],
           [id |-> 3, owner |-> "alice", price |-> 0, for_sale |-> FALSE,
            rarity |-> 1, listed_at |-> MsPerSec]>>
    ELSE <<[id |-> 1, owner |-> "alice", price |-> 0, for_sale |-> FALSE,
            rarity |-> 2, listed_at |-> MsPerSec],
           [id |-> 2, owner |-> "alice", price |-> 0, for_sale |-> FALSE,
            rarity |-> 1, listed_at |-> MsPerSec],
           [id |-> 3, owner |-> "bob", price |-> OCTAS, for_sale |-> TRUE,
            rarity |-> 1, listed_at |-> MsPerSec]>>

\* The marketplace ledger may also hold an NFT that comes without its name.
InitNftLedgers(p) ==
    {InitChainNfts(p)} \cup
    (IF p = "market"
     THEN {Append(InitChainNfts(p),
                  [id |-> 3, owner |-> "bob", name |-> << >>,
                   description |-> <<Bytes(<<"a">>)>>, price |-> OCTAS,
                   for_sale |-> TRUE, rarity |-> 1, listed_at |-> MsPerSec])}
     ELSE {})

\* The state of every component before it is mounted.
Constructed ==
    /\ mounted = FALSE
    /\ now = 0
    /\ notice = NoNotice
    /\ reads = EmptyBag
    /\ ops = EmptyBag
    /\ last = "none"
    /\ timerOn = FALSE
    /\ auctions = << >>
    /\ selectedAuction = << >>
    /\ bidAmount = << >>
    /\ isBidModalVisible = FALSE
    /\ nfts = << >>
    /\ selectedNft = << >>
    /\ currentPage = 1
    /\ filteredNfts = << >>
    /\ rarity = 0
    /\ sortBy = "price_asc"
    /\ priceRange = DefaultPriceRange
    /\ dateRange = NoDates
    /\ searchTerm = NoTerm
    /\ isBuyModalVisible = FALSE
    /\ totalNFTs = 0
    /\ salePrice = << >>
    /\ isModalVisible = FALSE
    /\ isAuctionModalVisible = FALSE
    /\ auctionStartingPrice = << >>
    /\ auctionEndTime = << >>
    /\ userNFTs = << >>
    /\ selectedNFTs = << >>
    /\ isFusing = FALSE
    /\ fusionResult = << >>

Init ==
    /\ page \in Pages
    /\ account \in Accounts
    /\ limits \in Limits(page)
    /\ chainAuctions \in InitAuctionLedgers
    /\ chainNfts \in InitNftLedgers(page)
    /\ isLoading = (page = "market")
    /\ Constructed

Next ==
    \/ Tick
    \/ ChainOutbid
    \/ AuctionMount
    \/ AuctionUnmount
    \/ PollTick
    \/ FetchAuctionsOk
    \/ FetchAuctionsNotArray
    \/ FetchAuctionsUndecodable
    \/ FetchAuctionsFail
    \/ handleBidClick
    \/ setBidAmount
    \/ handleBidCancel
    \/ handleBidSubmit
    \/ BidWalletResolve
    \/ BidWalletReject
    \/ BidFinalityOk
    \/ BidFinalityFail
    \/ MarketMount
    \/ MarketUnmount
    \/ FetchNftsOk
    \/ FetchNftsUndecodable
    \/ FetchNftsFail
    \/ setRarity
    \/ setSortBy
    \/ handleBuyClick
    \/ handleCancelBuy
    \/ handleConfirmPurchase
    \/ PurchaseWalletResolve
    \/ PurchaseWalletReject
    \/ PurchaseFinalityOk
    \/ PurchaseFinalityFail
    \/ ChainOtherBuys
    \/ MyMount
    \/ MyFetchIdsOk
    \/ MyFetchIdsFail
    \/ MyFetchDetailsDone
    \/ handleSellClick
    \/ handleAuctionClick
    \/ handleCancel
    \/ setSalePrice
    \/ setAuctionStartingPrice
    \/ setAuctionEndTime
    \/ handleConfirmListing
    \/ ListingWalletResolve
    \/ ListingWalletReject
    \/ ListingFinalityOk
    \/ ListingFinalityFail
    \/ handleConfirmAuction
    \/ AuctionWalletResolve
    \/ AuctionWalletReject
    \/ AuctionFinalityOk
    \/ AuctionFinalityFail
    \/ FusionMount
    \/ FusionFetchIdsOk
    \/ FusionFetchIdsFail
    \/ FusionFetchDetailsOk
    \/ FusionFetchDetailsFail
    \/ handleNFTSelect
    \/ handleFusion
    \/ FuseWalletResolve
    \/ FuseWalletReject
    \/ FuseFinalityOk
    \/ FuseFinalityFail
    \/ FuseMintedOk
    \/ FuseMintedFail
    \/ closeFusionResult

Spec == Init /\ [][Next]_vars

\* ------------------------------------------- the marketplace's filters
\* A marketplace of two NFTs.
SmallLedger ==
    <<[id |-> 1, owner |-> "bob", name |-> <<Bytes(<<"A", "b">>)>>,
       description |-> <<Bytes(<<"b">>)>>, price |-> 5 * OCTAS,
       for_sale |-> TRUE, rarity |-> 2, listed_at |-> MsPerSec],
      [id |-> 2, owner |-> "bob", name |-> <<Bytes(<<"b", "a">>)>>,
       description |-> <<Bytes(<<"B">>)>>, price |-> 3 * OCTAS,
       for_sale |-> TRUE, rarity |-> 1, listed_at |-> 2 * MsPerSec]>>

\* A marketplace of more NFTs than a page holds, the newest id first, with
\* NFTs of equal price, of equal rarity and of equal date among them.
LargeLedger ==
    [i \in 1..MaxNfts |->
        LET id == MaxNfts + 1 - i
        IN  [id |-> id, owner |-> "bob",
             name |-> <<Bytes(CASE id % 3 = 0 -> <<"b", "b">>
                               [] id % 3 = 1 -> <<"A", "b">>
                               [] OTHER -> <<"b", "a">>)>>,
             description |-> <<Bytes(IF id % 2 = 0 THEN <<"b">> ELSE <<"B">>)>>,
             price |-> (IF id = MaxNfts THEN 7 ELSE 3 + (id % 3)) * OCTAS,
             for_sale |-> TRUE, rarity |-> 1 + (id % MaxRarity),
             listed_at |-> (1 + (id \div 4)) * MsPerSec]]

FilterLedgers == {SmallLedger, LargeLedger}

\* MarketView over one of these marketplaces, before it is mounted.
InitFilter ==
    /\ page = "market"
    /\ account = "alice"
    /\ limits = [reads |-> 1, ops |-> 1]
    /\ chainAuctions \in InitChainAuctions
    /\ chainNfts \in FilterLedgers
    /\ isLoading = TRUE
    /\ Constructed

\* The view loads the marketplace and the visitor moves the filters, the
\* sort mode and the page.
NextFilter ==
    \/ MarketMount
    \/ FetchNftsOk
    \/ setRarity
    \/ setSortBy
    \/ setPriceRange
    \/ setDateRange
    \/ setSearchTerm
    \/ setCurrentPage

SpecFilter == InitFilter /\ [][NextFilter]_vars

\* ------------------------------------------- the marketplace's prices
\* Marketplaces of one NFT for sale, priced in hundredths of an APT.
MoneyLedgers ==
    {<<[id |-> 1, owner |-> "bob", name |-> <<Bytes(<<"A", "b">>)>>,
        description |-> <<Bytes(<<"b">>)>>, price |-> cents * (OCTAS \div 100),
        for_sale |-> TRUE, rarity |-> 1, listed_at |-> MsPerSec]>> :
        cents \in 1..MaxCents}

\* MarketView over one of these marketplaces, before it is mounted.
InitMoney ==
    /\ page = "market"
    /\ account = "alice"
    /\ limits = [reads |-> 1, ops |-> 1]
    /\ chainAuctions \in InitChainAuctions
    /\ chainNfts \in MoneyLedgers
    /\ isLoading = TRUE
    /\ Constructed

\* The view loads the marketplace and the visitor buys the NFT.
NextMoney ==
    \/ MarketMount
    \/ FetchNftsOk
    \/ handleBuyClick
    \/ handleCancelBuy
    \/ handleConfirmPurchase
    \/ PurchaseWalletResolve
    \/ PurchaseWalletReject
    \/ PurchaseFinalityOk
    \/ PurchaseFinalityFail

SpecMoney == InitMoney /\ [][NextMoney]_vars

\* ------------------------------------------- every call returns or fails
\* A ledger read in flight fails or is answered.
ReadReturns ==
    \/ FetchAuctionsFail \/ FetchAuctionsNotArray \/ FetchAuctionsUndecodable
    \/ FetchAuctionsOk
    \/ FetchNftsFail \/ FetchNftsUndecodable \/ FetchNftsOk
    \/ MyFetchIdsFail \/ MyFetchIdsOk \/ MyFetchDetailsDone
    \/ FusionFetchIdsFail \/ FusionFetchIdsOk
    \/ FusionFetchDetailsFail \/ FusionFetchDetailsOk

\* A wallet call, a finality wait or the read of the minted NFT fails or
\* returns.
OpReturns ==
    \/ BidWalletReject \/ BidWalletResolve \/ BidFinalityFail \/ BidFinalityOk
    \/ PurchaseWalletReject \/ PurchaseWalletResolve
    \/ PurchaseFinalityFail \/ PurchaseFinalityOk
    \/ ListingWalletReject \/ ListingWalletResolve
    \/ ListingFinalityFail \/ ListingFinalityOk
    \/ AuctionWalletReject \/ AuctionWalletResolve
    \/ AuctionFinalityFail \/ AuctionFinalityOk
    \/ FuseWalletReject \/ FuseWalletResolve
    \/ FuseFinalityFail \/ FuseFinalityOk
    \/ FuseMintedFail \/ FuseMintedOk

\* The views without the marketplace's filters and without the clock, which
\* no refresh and no fusion depends on.
NextLive ==
    \/ ReadReturns
    \/ OpReturns
    \/ ChainOutbid
    \/ AuctionMount
    \/ AuctionUnmount
    \/ PollTick
    \/ handleBidClick
    \/ setBidAmount
    \/ handleBidCancel
    \/ handleBidSubmit
    \/ MarketMount
    \/ MarketUnmount
    \/ handleBuyClick
    \/ handleCancelBuy
    \/ handleConfirmPurchase
    \/ ChainOtherBuys
    \/ MyMount
    \/ handleSellClick
    \/ handleAuctionClick
    \/ handleCancel
    \/ setSalePrice
    \/ setAuctionStartingPrice
    \/ setAuctionEndTime
    \/ handleConfirmListing
    \/ handleConfirmAuction
    \/ FusionMount
    \/ handleNFTSelect
    \/ handleFusion
    \/ closeFusionResult

\* The program with every awaited call settling: no promise stays pending.
SpecLive == Init /\ [][NextLive]_vars /\ WF_vars(ReadReturns) /\ WF_vars(OpReturns)

\* ================================================================ properties
\* What a page holds of the ledger: the lists a refresh stores.
Snapshot == <<auctions, nfts, filteredNfts, totalNFTs, userNFTs>>

\* What a page holds of its dialogs: selections, inputs and modal flags.
Dialogs == <<selectedAuction, bidAmount, isBidModalVisible, selectedNft,
             isBuyModalVisible, salePrice, isModalVisible, isAuctionModalVisible,
             auctionStartingPrice, auctionEndTime, selectedNFTs, fusionResult>>

\* The step starts a ledger read.
ReadStarted == BagCardinality(reads') > BagCardinality(reads)

\* The step hands the intent op to the wallet.
Delegated(op) == op.stage = "wallet" /\ ops' = ops (+) One(op)

\* The step ends the handler that was waiting on op.
Ended(op) == ops' = ops (-) One(op) /\ BagCardinality(ops') < BagCardinality(ops)

\* C1, as the code has it: a refresh that ends in its catch block (the auction
\* read, the listing read, the id read of the owned-NFT and fusion views, a
\* detail read of the fusion view) leaves the snapshot as it was and shows an
\* error message.
C1_FailedRefreshKeepsSnapshot ==
    [][last' = "failed" => (Snapshot' = Snapshot /\ notice'.kind = "error")]_vars

\* C1's case: a refresh has just failed on a page that holds a snapshot.
C1_Witness ==
    /\ last = "failed"
    /\ (auctions # << >> \/ nfts # << >> \/ userNFTs # << >>)

\* C1 as stated: whichever ledger read of a refresh fails, a per-id detail
\* read of the owned-NFT view included, the snapshot stays as it was and an
\* error is shown.
C1_AnyReadFailureKeepsSnapshot ==
    [][last' \in {"failed", "partial"} =>
          (Snapshot' = Snapshot /\ notice'.kind = "error")]_vars

\* C2 as stated: at most one refresh of a page is in flight at any time.
C2_SingleFlightRefresh == BagCardinality(reads) <= 1

\* C3 as stated: of each kind of write operation at most one submission is
\* between its delegation to the wallet and its end.
C3_OneSubmissionAtATime ==
    \A op \in InFlight(ops) :
        /\ CopiesIn(op, ops) = 1
        /\ \A other \in InFlight(ops) : other.kind = op.kind => other = op

\* C4 as stated: a write operation whose transaction the finality wait has
\* confirmed does not end without a refresh being started.
C4_ConfirmedStartsRefresh ==
    [][last' \in {"Confirmed", "Aborted"} => ReadStarted]_vars

\* C5: when the wallet rejects, an error is shown, no read is started, the
\* snapshot and the dialogs are as they were, so that the same submission
\* can be made again, and isFusing is not left set.
C5_WalletRejectIsRetryable ==
    [][last' = "UserRejected" =>
          /\ notice'.kind = "error"
          /\ reads' = reads
          /\ Snapshot' = Snapshot
          /\ Dialogs' = Dialogs
          /\ ~isFusing']_vars

\* C5's case: the wallet has just rejected a fusion, and the two NFTs are
\* still selected.
C5_Witness ==
    /\ last = "UserRejected"
    /\ page = "fusion"
    /\ Len(selectedNFTs) = 2

\* The messages the pages show when the wallet rejects.
WalletRejectTexts ==
    {"Failed to place bid. Please try again.", "Failed to purchase NFT.",
     "Failed to list NFT for sale.", "Failed to create auction. Please try again.",
     "Failed to fuse NFTs. Please try again."}

\* C6 as stated: when the finality wait fails, the error shown is not the one
\* shown for a wallet rejection, and a refresh is started.
C6_ChainRejectedDistinctAndRefreshes ==
    [][last' = "ChainRejected" =>
          /\ notice'.kind = "error"
          /\ notice'.text \notin WalletRejectTexts
          /\ ReadStarted]_vars

C8_NoBidAfterEnd ==
    [][\A op \in InFlight(ops') :
          (op.kind = "place_bid" /\ Delegated(op)) =>
              now < selectedAuction[1].endTime * MsPerSec]_vars

\* C9: the fusion selection holds at most two NFTs of different ids, and a
\* fuse intent names two different ids.
C9_SelectionDistinct ==
    /\ Len(selectedNFTs) <= 2
    /\ \A i, j \in 1..Len(selectedNFTs) :
          i # j => selectedNFTs[i].id # selectedNFTs[j].id
    /\ \A op \in InFlight(ops) : op.kind = "fuse_nfts" => op.id[1] # op.id[2]

\* C9's case: two NFTs are selected and a fuse intent naming them is with the
\* wallet.
C9_Witness ==
    /\ Len(selectedNFTs) = 2
    /\ \E op \in InFlight(ops) : op.kind = "fuse_nfts" /\ op.stage = "wallet"

\* C10: a write operation enters at the wallet, reaches the finality wait only
\* from the wallet, and the read of the minted NFT only from the finality wait;
\* the success notice, the Confirmed end and the refresh that follows a
\* transaction come only in a step that ends an operation whose finality wait
\* has returned.
C10_StepsInOrder ==
    [][/\ \A op \in InFlight(ops') :
             CopiesIn(op, ops') > CopiesIn(op, ops) =>
                \/ Delegated(op)
                \/ /\ op.stage = "finality"
                   /\ ops' = (ops (-) One([op EXCEPT !.stage = "wallet"])) (+) One(op)
                   /\ BagIn([op EXCEPT !.stage = "wallet"], ops)
                \/ /\ op.stage = "minted"
                   /\ ops' = (ops (-) One([op EXCEPT !.stage = "finality"])) (+) One(op)
                   /\ BagIn([op EXCEPT !.stage = "finality"], ops)
       /\ (notice'.kind = "success" \/ last' = "Confirmed" \/ (ReadStarted /\ ops' # ops)) =>
             \E op \in InFlight(ops) :
                /\ Ended(op)
                /\ op.stage = IF op.kind = "fuse_nfts" THEN "minted" ELSE "finality"]_vars

\* C10's case: a bid has just run through to Confirmed.
C10_Witness ==
    /\ last = "Confirmed"
    /\ notice.kind = "success"
    /\ page = "auction"

\* The data a refresh fetches, without what the page derives from it.
Fetched == <<auctions, nfts, totalNFTs, userNFTs>>

\* C11 as stated: a refresh replaces what it fetched in one step, the step
\* that stores the new list; no step writes one part of it (the owned-NFT
\* total) and leaves another (the owned-NFT list) for a later step.
C11_RefreshReplacesAtOnce ==
    [][(Fetched' # Fetched /\ page' # "none") => last' \in {"replaced", "partial"}]_vars

\* C12: from the teardown of the auction view on the interval is cleared, and
\* the only read still started is the fetchAuctions() of a bid that was in
\* flight, never one of the timer.
C12_NoPollAfterTeardown ==
    [][page' = "none" => (~timerOn' /\ (ReadStarted => last' = "Confirmed"))]_vars

\* C12's case: the auction view was torn down with the timer live and a read
\* in flight.
C12_Witness ==
    /\ page = "none"
    /\ \E r \in InFlight(reads) : r.fn = "get_all_auctions"

\* C13 as stated: the answer to a read that arrives after the teardown is
\* ignored: no snapshot, no loading flag is written, nothing is shown.
C13_LateAnswerIgnored ==
    [][(page = "none" /\ BagCardinality(reads') < BagCardinality(reads)) =>
          (Snapshot' = Snapshot /\ isLoading' = isLoading /\ notice' = NoNotice)]_vars

\* The step ends the fan-out of per-id detail reads.
DetailReadsEnd ==
    \E r \in InFlight(reads) : r.fn = "get_nft_details" /\ reads' = reads (-) One(r)

\* C14 as stated: a fan-out of detail reads never fails as a whole; it stores
\* the snapshot of the ids whose read succeeded.
C14_FanOutNeverFails ==
    [][DetailReadsEnd => last' \in {"replaced", "partial"}]_vars

\* The ids of the records of a read's answer that decode.
WellFormedIds(r) ==
    {r.val[i].id : i \in {j \in 1..Len(r.val) :
        IF r.fn = "Marketplace" THEN NftsDecodable(<<r.val[j]>>)
                                ELSE AuctionsDecodable(<<r.val[j]>>)}}

\* The read's answer holds a record that does not decode.
HasMalformed(r) ==
    \/ r.fn = "Marketplace" /\ ~NftsDecodable(r.val)
    \/ r.fn = "get_all_auctions" /\ ~AuctionsDecodable(r.val)

\* C15: when a refresh read of a mounted view answers with a record that
\* does not decode, the fetch is not aborted: the snapshot is replaced and
\* every record of that answer that does decode is in the new snapshot.
C15_DecodeFailureIsLocal ==
    [][\A r \in InFlight(reads) :
          (/\ reads' = reads (-) One(r)
           /\ HasMalformed(r)
           /\ page # "none"
           /\ last' \notin {"failed", "ignored"})
          => (/\ last' = "replaced"
              /\ WellFormedIds(r) \subseteq
                   ({auctions'[i].id : i \in 1..Len(auctions')} \cup
                    {nfts'[i].id : i \in 1..Len(nfts')}))]_vars

\* Two letters that differ in case at most.
SameLetter(c, d) == c = d \/ {c, d} = {"A", "a"} \/ {c, d} = {"B", "b"}

\* The term occurs in the text, whatever the case of the letters.
Occurs(term, text) ==
    \E k \in 0..(Len(text) - Len(term)) :
        \A i \in 1..Len(term) : SameLetter(text[k + i], term[i])

\* The snapshot item satisfies every predicate that is active.
Matches(n) ==
    /\ rarity # 0 => n.rarity = rarity
    /\ Cmp(priceRange[1], n.price) <= 0 /\ Cmp(n.price, priceRange[2]) <= 0
    /\ (dateRange[1] # << >> /\ dateRange[2] # << >>) =>
          (dateRange[1][1] <= n.listed_at /\ n.listed_at <= dateRange[2][1])
    /\ searchTerm # << >> => (Occurs(searchTerm, n.name) \/ Occurs(searchTerm, n.description))

MatchingIds == {nfts[i].id : i \in {j \in 1..Len(nfts) : Matches(nfts[j])}}
IdsOf(s) == {s[i].id : i \in 1..Len(s)}

\* The snapshot [{id:1, rarity:2, price:5}, {id:2, rarity:1, price:3}] under
\* rarity = 1, price_asc and no other filter.
ExampleCase ==
    /\ Len(nfts) = 2
    /\ nfts[1].id = 1 /\ nfts[1].rarity = 2 /\ nfts[1].price = Number(5)
    /\ nfts[2].id = 2 /\ nfts[2].rarity = 1 /\ nfts[2].price = Number(3)
    /\ rarity = 1 /\ sortBy = "price_asc"
    /\ priceRange = DefaultPriceRange /\ dateRange = NoDates /\ searchTerm = NoTerm

\* C16: the filtered list of the marketplace view holds exactly the snapshot
\* items that satisfy all active predicates (rarity equality, inclusive price
\* range, inclusive date range, case-insensitive substring of name or
\* description), each once; in the example case page 1 is [{id:2}] and the
\* total is 1.
C16_FilteredIsExactlyMatching ==
    page = "market" =>
        /\ IdsOf(filteredNfts) = MatchingIds
        /\ Cardinality(IdsOf(filteredNfts)) = Len(filteredNfts)
        /\ ExampleCase =>
              (/\ [i \in 1..Len(paginatedNfts) |-> paginatedNfts[i].id] = <<2>>
               /\ PaginationTotal = 1)

\* The example case is on display.
C16_Witness == page = "market" /\ ~isLoading /\ ExampleCase

SortKey(n) ==
    CASE sortBy \in {"price_asc", "price_desc"} -> n.price
      [] sortBy \in {"date_asc", "date_desc"} -> Number(n.listed_at)
      [] sortBy \in {"rarity_asc", "rarity_desc"} -> Number(n.rarity)

\* C17: in the filtered list, an item goes before another when its sort key
\* comes first in the direction of the sort mode, and items of equal sort key
\* are in ascending id order.
C17_TiesByIdAscending ==
    page = "market" =>
        \A i, j \in 1..Len(filteredNfts) :
            i < j =>
                IF SortKey(filteredNfts[i]) = SortKey(filteredNfts[j])
                THEN filteredNfts[i].id < filteredNfts[j].id
                ELSE (sortBy \in {"price_asc", "date_asc", "rarity_asc"})
                        <=> (Cmp(SortKey(filteredNfts[i]), SortKey(filteredNfts[j])) < 0)

RECURSIVE PagesUpTo(_)
PagesUpTo(p) == IF p = 0 THEN << >> ELSE PagesUpTo(p - 1) \o PageOf(p)

\* C18: the pages 1..ceil(total/8) put one after the other are the filtered
\* list, each item once, and the total the page count is computed from is
\* the number of snapshot items that pass the filters.
C18_PagesCoverFiltered ==
    page = "market" =>
        /\ PagesUpTo(PageCount) = filteredNfts
        /\ Cardinality(IdsOf(PagesUpTo(PageCount))) = Len(filteredNfts)
        /\ PaginationTotal = Cardinality(MatchingIds)
        /\ PageCount * pageSize >= PaginationTotal
        /\ (PageCount - 1) * pageSize < PaginationTotal \/ PaginationTotal = 0

\* The second of two pages is on display while a filter holds items back.
C18_Witness ==
    /\ page = "market" /\ ~isLoading
    /\ currentPage = 2 /\ PageCount = 2
    /\ Len(filteredNfts) < Len(nfts)

\* C19: a step that changes a filter (rarity, price range, date range,
\* search term) or the sort mode leaves the current page at 1.
C19_FilterChangeResetsPage ==
    [][(\/ rarity' # rarity
        \/ priceRange' # priceRange
        \/ dateRange' # dateRange
        \/ searchTerm' # searchTerm
        \/ sortBy' # sortBy) => currentPage' = 1]_vars

\* Page 1 of several is on display under a sort mode and a price range that
\* the visitor chose.
C19_Witness ==
    /\ page = "market" /\ ~isLoading
    /\ currentPage = 1 /\ PageCount > 1
    /\ sortBy # "price_asc" /\ priceRange # DefaultPriceRange

\* C20: while the marketplace view is up and no refresh is in flight, the
\* filtered list is the result of filtering and sorting the snapshot under
\* the settings in force.
C20_FilteredFollowsSnapshot ==
    (page = "market" /\ reads = EmptyBag) =>
        filteredNfts = FilterNfts(nfts, rarity, priceRange, dateRange, searchTerm, sortBy)

\* A refresh has just replaced the snapshot while a rarity filter holds
\* items back.
C20_Witness ==
    /\ page = "market" /\ reads = EmptyBag
    /\ last = "replaced"
    /\ rarity # 0
    /\ Len(filteredNfts) < Len(nfts)

\* C21: the stored snapshot list changes only when a refresh replaces it,
\* and then it is the decoded answer in the ledger's order: no filter or
\* sort setting changes its content or its order.
C21_SnapshotImmutable ==
    [][page' = "market" =>
          \/ nfts' = nfts
          \/ /\ last' = "replaced"
             /\ \E r \in InFlight(reads) :
                   reads' = reads (-) One(r) /\ nfts' = DecodeNfts(r.val)]_vars

\* All of the snapshot is on display under a sort mode the visitor chose,
\* in an order that is not the snapshot's.
C21_Witness ==
    /\ page = "market" /\ ~isLoading
    /\ sortBy # "price_asc"
    /\ Len(filteredNfts) = Len(nfts)
    /\ filteredNfts # nfts

\* C22: every item the marketplace view lists, and so every NFT its Buy
\* button can select, is for sale in the snapshot.
C22_ListedAreForSale ==
    page = "market" =>
        /\ \A i \in 1..Len(filteredNfts) : filteredNfts[i].for_sale
        /\ selectedNft # << >> => selectedNft[1].for_sale

\* C23: no list-for-sale, create-auction or place-bid intent with a negative
\* amount is handed to the wallet.
C23_NoNegativeAmountDelegated ==
    \A op \in InFlight(ops) :
        op.kind \in {"list_for_sale", "create_auction", "place_bid"} => op.amount >= 0

\* C24: the amount of octas a purchase intent carries is the price in octas
\* the ledger holds for that NFT, the price having gone through the division
\* by 10^8 on decoding and the multiplication by 10^8 on purchase.
C24_PurchaseAmountIsLedgerPrice ==
    \A op \in InFlight(ops) :
        op.kind = "purchase_nft" =>
            \E i \in 1..Len(chainNfts) :
                /\ chainNfts[i].id = op.id
                /\ op.amount = Number(chainNfts[i].price)

\* C25: the auction snapshot never regresses: no step of the auction page
\* lowers the current bid the snapshot shows for an auction, the ledger's
\* current bids only ever rising.
C25_SnapshotNeverRegresses ==
    [][page' = "auction" =>
          \A i \in 1..Len(auctions), j \in 1..Len(auctions') :
              auctions'[j].id = auctions[i].id =>
                  auctions'[j].currentBid >= auctions[i].currentBid]_vars

\* C26: while the bid dialog of an auction is open and its Place Bid button
\* is enabled, the bid typed is greater than the current bid the snapshot
\* shows for that auction.
C26_BidAboveSnapshotBid ==
    (page = "auction" /\ isBidModalVisible /\ selectedAuction # << >>
        /\ ~BidSubmitDisabled) =>
        \A i \in 1..Len(auctions) :
            auctions[i].id = selectedAuction[1].id =>
                bidAmount[1] > auctions[i].currentBid

\* C27: whenever no refresh of the fusion page is under way, every NFT of the
\* fusion selection is one of the owned-NFT snapshot.
C27_SelectionWithinSnapshot ==
    (page = "fusion" /\ mounted /\ ~isLoading) =>
        \A i \in 1..Len(selectedNFTs) :
            \E j \in 1..Len(userNFTs) : userNFTs[j].id = selectedNFTs[i].id

\* C28: in the owned-NFT view, whenever no refresh is under way, the total
\* the pagination is given is the number of NFTs in the snapshot.
C28_TotalIsSnapshotSize ==
    (page = "my" /\ mounted /\ ~isLoading) => totalNFTs = Len(nfts)

====
